---- MODULE Spec2Model ----
(***************************************************************************)
(* Model of the AR social map: the flight trajectory model                 *)
(* (utils/flyingBehavior.ts), the render-frame heading rotation            *)
(* (utils/coordinates, bundled in utils/developerObjects.ts), the object   *)
(* store (store/objectStore) and the animation ticks of Map3DView and      *)
(* ARView.                                                                 *)
(*                                                                         *)
(* JavaScript numbers are modelled in fixed point:                         *)
(*   - a trigonometric value v is the integer v * Scale;                   *)
(*   - a length of m metres (radius, altitude, offset) is m * Scale;       *)
(*   - an angle is held in degrees * AngleScale (pi radians = 180 deg);    *)
(*   - a latitude or longitude in degrees d is the integer d * DegScale;   *)
(*   - a speed multiplier s is the integer s * SpeedScale;                 *)
(*   - timeMs (milliseconds) is an integer as is.                          *)
(* Math.sin is Bhaskara's rational approximation on whole degrees, which   *)
(* is exact at 0, 30, 90, 150, 180 degrees and never leaves [-1, 1].       *)
(***************************************************************************)
EXTENDS Integers, Sequences, FiniteSets, TLC

VARIABLES
    \* --- calculateFlightOffset / calculateCurrentPosition called on drawn inputs
    fConfig,        \* the FlightConfig argument
    fTime,          \* the timeMs argument
    fBase,          \* the basePosition argument
    fOffset,        \* what calculateFlightOffset returned (NoOffset before the call)
    fPosition,      \* what calculateCurrentPosition returned (NoPosition before the call)
    \* --- enuToThreeJS / applyHeading called on drawn inputs
    hEnu,           \* the ENU argument
    hHeading,       \* the headingDegrees argument
    hOut,           \* what applyHeading(enuToThreeJS(enu), heading) returned
    \* --- useObjectStore (store/objectStore)
    objects,        \* PlacedObject[]: the user's own objects
    publicObjects,  \* PlacedObject[]: other users' public objects
    userId,         \* string | null
    isInitialized,  \* boolean
    initPc,         \* per initialize() call: where the async function stands
    initUser,       \* per initialize() call: its local const userId
    nextId,         \* number of crypto.randomUUID() values drawn so far
    \* --- the backend (table ar_objects) and the requests on their way to it
    rows,           \* the rows of ar_objects
    pending,        \* the insert / delete requests not yet processed
    \* --- the views
    now,            \* Date.now(), milliseconds
    mode,           \* App: which view is shown
    flyingObjects,  \* Map3DView: the list captured by the running position effect
    flyingPositions,\* Map3DView: useState<Map<string, GeoPosition>>
    mapTickAt,      \* the Date.now() read by the last updatePositions
    arPositions,    \* ARView: groupRef.current.position of each mounted ARObject
    arFrameAt,      \* the Date.now() read by the last AR frame
    \* --- getRelativePosition / calculateDistance called on drawn inputs
    gTarget,        \* the target (pos2) argument
    gOrigin,        \* the devicePosition (pos1) argument
    gHeading,       \* the heading argument
    gOut,           \* what getRelativePosition(target, devicePosition, heading) returned
    gDist,          \* what calculateDistance(devicePosition, target) returned
    \* --- the visibility filter of the two views
    currentPosition,\* Map3DView: useState<GeoPosition | null>
    arDevicePosition, \* ARView: the position of useGeolocation(), or null
    mapScene,       \* Map3DView: the position and allObjects of its last render
    arScene,        \* ARView: the position and allObjects of its last render
    \* --- fuzzPosition called on drawn inputs
    zPosition,      \* the position argument
    zMin,           \* the minOffsetMeters argument
    zMax,           \* the maxOffsetMeters argument
    zDistance,      \* the local const distance of the call
    zOut,           \* what fuzzPosition returned
    \* --- useSocialStore (store/socialStore) and its broadcast channel
    bPosition,      \* the position argument of the last broadcastPresence call
    channel,        \* the broadcasts sent on 'tracking_room' and not yet delivered
    currentRoomId,  \* string | null
    onlineUsers,    \* Map<string, UserPresence>, as the set of its entries
    otherFootprints,\* Footprint[]
    \* --- components/SmartMapView.tsx and localStorage
    cesiumFailed,   \* localStorage.getItem('cesium_failed'): "true" or "null"
    useFallback,    \* useState<boolean | null>: "null", "true" or "false"
    smMounted,      \* whether SmartMapView is mounted (the page is open)
    smMounts,       \* mounts of SmartMapView so far
    smViews,        \* what this mount has rendered: "loading", "2d", "3d", in order
    smFlagAtMount,  \* whether the flag was stored when this mount began
    smRetried,      \* whether handleRetry3D ran during this mount
    \* --- store/followStore and the backend table follows
    following,      \* string[]
    followingProfiles, \* Profile[]
    followCalls,    \* the followUser / unfollowUser calls awaiting the backend
    followNext,     \* calls of followUser / unfollowUser so far
    followRows,     \* follows rows of this user, as the set of their following_id
    followFailed,   \* whether a request of the follow store has returned an error
    \* --- useSocialStore: what the channel's handlers keep
    objectReactions,\* Map<string, Reaction[]>, as the set of its (objectId, reaction) pairs
    objectComments, \* Map<string, Comment[]>, as the list of its comments in arrival order
    received,       \* the broadcasts the channel's handlers have been called with
    \* --- store/feedStore and the rows its queries see
    items,          \* FeedItem[]
    isLoading,      \* boolean
    hasMore,        \* boolean
    cursor,         \* string | null: the created_at of the last row taken
    feedCalls,      \* the fetchFeed / loadMore calls awaiting the backend
    feedNext,       \* calls of fetchFeed / loadMore / refresh so far
    feedRows,       \* ar_objects as the feed sees it, newest first; it does not change
    feedFollowing,  \* the followingIds the feed view passes to every call
    feedFetched     \* the followingIds of the last fetchFeed to complete, if it
                    \* succeeded and no loadMore has been started since

flightVars  == <<fConfig, fTime, fBase, fOffset, fPosition>>
headingVars == <<hEnu, hHeading, hOut>>
storeVars   == <<objects, publicObjects, userId, isInitialized, initPc, initUser, nextId>>
backendVars == <<rows, pending>>
viewVars    == <<now, mode, flyingObjects, flyingPositions, mapTickAt, arPositions, arFrameAt>>
appVars     == <<storeVars, backendVars, viewVars>>
geoVars     == <<gTarget, gOrigin, gHeading, gOut, gDist>>
cullVars    == <<currentPosition, arDevicePosition, mapScene, arScene>>
fuzzVars    == <<zPosition, zMin, zMax, zDistance, zOut>>
socialVars  == <<bPosition, channel, currentRoomId, onlineUsers, otherFootprints>>
smartVars   == <<cesiumFailed, useFallback, smMounted, smMounts, smViews, smFlagAtMount,
                 smRetried>>
followVars  == <<following, followingProfiles, followCalls, followNext, followRows,
                 followFailed>>
roomVars    == <<objectReactions, objectComments, received>>
feedVars    == <<items, isLoading, hasMore, cursor, feedCalls, feedNext, feedRows,
                 feedFollowing, feedFetched>>
laterVars   == <<smartVars, followVars, roomVars, feedVars>>
extraVars   == <<geoVars, cullVars, fuzzVars, socialVars, laterVars>>
vars == <<flightVars, headingVars, appVars, extraVars>>

----------------------------------------------------------------------------
(* Number representation *)

Scale      == 1000        \* fixed-point unit of trigonometric values and metres
AngleScale == 100000      \* angle unit: 1 degree = AngleScale
DegScale   == 1000000     \* geodetic unit: 1 degree of latitude = DegScale
SpeedScale == 10          \* speed multiplier unit: speed 1 = SpeedScale

Abs(x) == IF x < 0 THEN -x ELSE x

\* Math.max(Math.abs(a), Math.abs(b), Math.abs(c))
Max3Abs(a, b, c) ==
    LET m == IF Abs(a) >= Abs(b) THEN Abs(a) ELSE Abs(b)
    IN  IF m >= Abs(c) THEN m ELSE Abs(c)

\* A JavaScript value of a field typed number that may be missing or NaN.
Num(v) == [nan |-> FALSE, val |-> v]
NaN    == [nan |-> TRUE, val |-> 0]

\* x || 0 : NaN, undefined and 0 give 0, every other number gives itself.
OrZero(x) == IF x.nan THEN 0 ELSE x.val

\* x + y on JavaScript numbers: NaN (or undefined) + anything is NaN.
JsAdd(x, y) == IF x.nan \/ y.nan THEN NaN ELSE Num(x.val + y.val)

\* a % b of JavaScript for b > 0: the remainder takes the sign of a.
JsMod(a, b) == IF a >= 0 THEN a % b ELSE -((-a) % b)

\* Math.floor(a / b) for integers a and b > 0.
MathFloorDiv(a, b) == a \div b

\* sin of x degrees, 0 <= x <= 180 (Bhaskara I), times Scale.
Bhaskara(x) == (4 * x * (180 - x) * Scale) \div (40500 - x * (180 - x))

\* sin of d whole degrees, any integer d, times Scale.
SinDeg(d) ==
    LET x == d % 360
    IN  IF x <= 180 THEN Bhaskara(x) ELSE -Bhaskara(x - 180)

CosDeg(d) == SinDeg(d + 90)

\* Math.sin / Math.cos of an angle held in degrees * AngleScale.
MathSin(a) == SinDeg(a \div AngleScale)
MathCos(a) == CosDeg(a \div AngleScale)

----------------------------------------------------------------------------
(* utils/flyingBehavior.ts *)

Patterns == {"circle", "figure8", "random"}

FlightConfig(p, r, lo, hi, s) ==
    [pattern |-> p, radius |-> r, minAltitude |-> lo, maxAltitude |-> hi, speed |-> s]

\* const noise = (s) => Math.sin(s * 127.1) * Math.cos(s * 311.7), arguments in
\* radians: 127.1 rad = 7282.294 deg = 82.294 deg (mod 360) and
\* 311.7 rad = 17859.094 deg = 219.094 deg (mod 360), held in millidegrees.
NoiseSinStep == 82294
NoiseCosStep == 219094
noise(s) ==
    (SinDeg((s * NoiseSinStep) \div 1000) * CosDeg((s * NoiseCosStep) \div 1000)) \div Scale

\* Mutant of FlightAngle: Math.PI / 10 for Math.PI / 15 (a 20-second cycle).
FlightAngle_Cycle20(config, timeMs) ==
    timeMs * config.speed * ((180 * AngleScale) \div (1000 * SpeedScale * 10))

\* const t = (timeMs / 1000) * config.speed * (Math.PI / 15), in degrees * AngleScale.
FlightAngle(config, timeMs) ==
    timeMs * config.speed * ((180 * AngleScale) \div (1000 * SpeedScale * 15))

\* Mutant of AltitudeOscillation: the sine is not shifted into [0, 2].
AltitudeOscillation_NoShift(config, t, rate10) ==
    LET altRange == config.maxAltitude - config.minAltitude
    IN  config.minAltitude + (MathSin((t * rate10) \div 10) * altRange) \div (2 * Scale)

\* config.minAltitude + (Math.sin(t * rate) + 1) * 0.5 * altRange, rate in tenths.
AltitudeOscillation(config, t, rate10) ==
    LET altRange == config.maxAltitude - config.minAltitude
    IN  config.minAltitude + ((MathSin((t * rate10) \div 10) + Scale) * altRange) \div (2 * Scale)

\* phase * phase * (3 - 2 * phase), phase in 1/Scale.
smoothstep(phase) ==
    (((phase * phase) \div Scale) * (3 * Scale - 2 * phase)) \div Scale

calculateFlightOffset(config, timeMs) ==
    LET t == FlightAngle(config, timeMs)
    IN  CASE config.pattern = "circle" ->
               [latOffset |-> (MathSin(t) * config.radius) \div Scale,
                lonOffset |-> (MathCos(t) * config.radius) \div Scale,
                altOffset |-> AltitudeOscillation(config, t, 5)]
          [] config.pattern = "figure8" ->
               [latOffset |-> (MathSin(t) * config.radius) \div Scale,
                lonOffset |-> (MathSin(t * 2) * config.radius) \div (2 * Scale),
                altOffset |-> AltitudeOscillation(config, t, 7)]
          [] OTHER ->
               LET seed    == MathFloorDiv(timeMs, 5000)
                   phase   == (JsMod(timeMs, 5000) * Scale) \div 5000
                   prevLat == (noise(seed) * config.radius) \div Scale
                   prevLon == (noise(seed + 1000) * config.radius) \div Scale
                   nextLat == (noise(seed + 1) * config.radius) \div Scale
                   nextLon == (noise(seed + 1001) * config.radius) \div Scale
                   smooth  == smoothstep(phase)
               IN  [latOffset |-> prevLat + ((nextLat - prevLat) * smooth) \div Scale,
                    lonOffset |-> prevLon + ((nextLon - prevLon) * smooth) \div Scale,
                    altOffset |-> AltitudeOscillation(config, t, 3)]

GeoPosition(lat, lon, alt) == [latitude |-> lat, longitude |-> lon, altitude |-> alt]

\* const metersPerDegreeLat = 111320
metersPerDegreeLat == 111320

\* 111320 * Math.cos(basePosition.latitude * Math.PI / 180)
metersPerDegreeLon(latitude) ==
    (metersPerDegreeLat * CosDeg(latitude \div DegScale)) \div Scale

\* A length (metres * Scale) over metres per degree, in degrees * DegScale.
MetresToDegrees(offset, metersPerDegree) ==
    (offset * (DegScale \div Scale)) \div metersPerDegree

\* Mutant of calculateCurrentPosition: the altitude is the offset alone.
calculateCurrentPosition_DropBase(basePosition, config, timeMs) ==
    LET offset == calculateFlightOffset(config, timeMs)
    IN  [latitude  |-> basePosition.latitude
                         + MetresToDegrees(offset.latOffset, metersPerDegreeLat),
         longitude |-> basePosition.longitude
                         + MetresToDegrees(offset.lonOffset,
                                           metersPerDegreeLon(basePosition.latitude)),
         altitude  |-> Num(offset.altOffset)]

calculateCurrentPosition(basePosition, config, timeMs) ==
    LET offset == calculateFlightOffset(config, timeMs)
    IN  [latitude  |-> basePosition.latitude
                         + MetresToDegrees(offset.latOffset, metersPerDegreeLat),
         longitude |-> basePosition.longitude
                         + MetresToDegrees(offset.lonOffset,
                                           metersPerDegreeLon(basePosition.latitude)),
         altitude  |-> Num(OrZero(basePosition.altitude) + offset.altOffset)]

----------------------------------------------------------------------------
(* utils/coordinates (bundled in utils/developerObjects.ts) *)

\* Mutant of enuToThreeJS: north is not negated.
enuToThreeJS_NorthForward(enu) == [x |-> enu.east, y |-> enu.up, z |-> enu.north]

\* ENU -> Three.js frame: X = east, Y = up, Z = -north.
enuToThreeJS(enu) == [x |-> enu.east, y |-> enu.up, z |-> -enu.north]

\* Mutant of applyHeading: only X is rotated.
applyHeading_KeepZ(position, headingDegrees) ==
    LET cos == CosDeg(headingDegrees)
        sin == SinDeg(headingDegrees)
    IN  [x |-> (position.x * cos - position.z * sin) \div Scale,
         y |-> position.y,
         z |-> position.z]

\* Rotation of the X/Z plane by the compass heading (whole degrees).
applyHeading(position, headingDegrees) ==
    LET cos == CosDeg(headingDegrees)
        sin == SinDeg(headingDegrees)
    IN  [x |-> (position.x * cos - position.z * sin) \div Scale,
         y |-> position.y,
         z |-> (position.x * sin + position.z * cos) \div Scale]

----------------------------------------------------------------------------
(* utils/coordinates: WGS84 -> ECEF -> ENU -> render frame, and the distance *)

\* ECEF, ENU and render coordinates of getRelativePosition, and the value of
\* calculateDistance, are held in decimetres: 1 metre = EcefScale.
EcefScale == 10

\* WGS84.a = 6378137.0 m, and WGS84.e2 = 2f - f*f = 0.00669438 in millionths.
WGS84_a  == 6378137 * EcefScale
WGS84_e2 == 6694

\* t * v for a trigonometric value t (times Scale) and a length v, split so that
\* no intermediate product leaves 32 bits.
TrigTimes(t, v) == (v \div Scale) * t + ((v % Scale) * t) \div Scale

\* The product of two trigonometric values.
TrigProduct(s, c) == (s * c) \div Scale

\* Math.sqrt of a non-negative integer, rounded down (bisection on [lo, hi]).
RECURSIVE SqrtBetween(_, _, _)
SqrtBetween(n, lo, hi) ==
    IF lo >= hi THEN lo
    ELSE LET mid == (lo + hi + 1) \div 2
         IN  IF mid * mid <= n THEN SqrtBetween(n, mid, hi)
                               ELSE SqrtBetween(n, lo, mid - 1)

MathSqrt(n) == SqrtBetween(n, 0, 46340)

\* Math.sqrt(dx*dx + dy*dy + dz*dz); large components are scaled down before
\* squaring and the root scaled back.
SqrtOfSquares(dx, dy, dz) ==
    LET m == Max3Abs(dx, dy, dz)
        k == m \div 20000 + 1
    IN  k * MathSqrt((Abs(dx) \div k) * (Abs(dx) \div k)
                     + (Abs(dy) \div k) * (Abs(dy) \div k)
                     + (Abs(dz) \div k) * (Abs(dz) \div k))

\* degrees * Math.PI / 180: a latitude or longitude as an angle.
toRadians(degrees) == degrees \div (DegScale \div AngleScale)

\* The altitude of a position as a length in ECEF units.
AltitudeLength(altitude) == altitude.val \div (Scale \div EcefScale)

\* N = WGS84.a / Math.sqrt(1 - WGS84.e2 * sinLat * sinLat)
PrimeVerticalRadius(sinLat) ==
    LET e2sin2 == (WGS84_e2 * ((sinLat * sinLat) \div Scale)) \div Scale  \* millionths
        root   == MathSqrt((1000000 - e2sin2) * 100)                  \* ten-thousandths
    IN  (WGS84_a \div root) * 10000 + ((WGS84_a % root) * 10000) \div root

\* geodeticToECEF; geo.altitude enters every component, so a missing or NaN
\* altitude makes all three NaN.
geodeticToECEF(geo) ==
    LET latRad == toRadians(geo.latitude)
        lonRad == toRadians(geo.longitude)
        sinLat == MathSin(latRad)
        cosLat == MathCos(latRad)
        N      == PrimeVerticalRadius(sinLat)
        alt    == AltitudeLength(geo.altitude)
    IN  [nan |-> geo.altitude.nan,
         x |-> TrigTimes(MathCos(lonRad), TrigTimes(cosLat, N + alt)),
         y |-> TrigTimes(MathSin(lonRad), TrigTimes(cosLat, N + alt)),
         z |-> TrigTimes(sinLat, N - ((N \div 10000) * WGS84_e2) \div 100 + alt)]

\* Mutant of ecefToENU: up leaves out the sinLat * dz term.
ecefToENU_UpWithoutZ(target, origin, originGeo) ==
    LET latRad == toRadians(originGeo.latitude)
        lonRad == toRadians(originGeo.longitude)
        sinLat == MathSin(latRad)
        cosLat == MathCos(latRad)
        sinLon == MathSin(lonRad)
        cosLon == MathCos(lonRad)
        dx == target.x - origin.x
        dy == target.y - origin.y
        dz == target.z - origin.z
    IN  [east  |-> TrigTimes(-sinLon, dx) + TrigTimes(cosLon, dy),
         north |-> TrigTimes(TrigProduct(-sinLat, cosLon), dx)
                     - TrigTimes(TrigProduct(sinLat, sinLon), dy)
                     + TrigTimes(cosLat, dz),
         up    |-> TrigTimes(TrigProduct(cosLat, cosLon), dx)
                     + TrigTimes(TrigProduct(cosLat, sinLon), dy)]

\* ecefToENU, for ECEF positions that are numbers.
ecefToENU(target, origin, originGeo) ==
    LET latRad == toRadians(originGeo.latitude)
        lonRad == toRadians(originGeo.longitude)
        sinLat == MathSin(latRad)
        cosLat == MathCos(latRad)
        sinLon == MathSin(lonRad)
        cosLon == MathCos(lonRad)
        dx == target.x - origin.x
        dy == target.y - origin.y
        dz == target.z - origin.z
    IN  [east  |-> TrigTimes(-sinLon, dx) + TrigTimes(cosLon, dy),
         north |-> TrigTimes(TrigProduct(-sinLat, cosLon), dx)
                     - TrigTimes(TrigProduct(sinLat, sinLon), dy)
                     + TrigTimes(cosLat, dz),
         up    |-> TrigTimes(TrigProduct(cosLat, cosLon), dx)
                     + TrigTimes(TrigProduct(cosLat, sinLon), dy)
                     + TrigTimes(sinLat, dz)]

\* Mutant of getRelativePosition: the device is taken at altitude zero.
getRelativePosition_DeviceOnGround(target, devicePosition, heading) ==
    LET targetECEF == geodeticToECEF(target)
        deviceECEF == geodeticToECEF([devicePosition EXCEPT !.altitude = Num(0)])
        enu        == ecefToENU(targetECEF, deviceECEF, devicePosition)
        threePos   == enuToThreeJS(enu)
    IN  applyHeading(threePos, heading)

\* getRelativePosition: WGS84 -> ECEF -> ENU -> Three.js -> compass correction.
getRelativePosition(target, devicePosition, heading) ==
    LET targetECEF == geodeticToECEF(target)
        deviceECEF == geodeticToECEF(devicePosition)
        enu        == ecefToENU(targetECEF, deviceECEF, devicePosition)
        threePos   == enuToThreeJS(enu)
    IN  applyHeading(threePos, heading)

\* Mutant of calculateDistance: the first point is taken at altitude zero.
calculateDistance_FirstOnGround(pos1, pos2) ==
    LET ecef1 == geodeticToECEF([pos1 EXCEPT !.altitude = Num(0)])
        ecef2 == geodeticToECEF(pos2)
        dx == ecef2.x - ecef1.x
        dy == ecef2.y - ecef1.y
        dz == ecef2.z - ecef1.z
    IN  IF ecef1.nan \/ ecef2.nan THEN NaN ELSE Num(SqrtOfSquares(dx, dy, dz))

\* calculateDistance: the straight-line ECEF distance; NaN when an altitude is.
calculateDistance(pos1, pos2) ==
    LET ecef1 == geodeticToECEF(pos1)
        ecef2 == geodeticToECEF(pos2)
        dx == ecef2.x - ecef1.x
        dy == ecef2.y - ecef1.y
        dz == ecef2.z - ecef1.z
    IN  IF ecef1.nan \/ ecef2.nan THEN NaN ELSE Num(SqrtOfSquares(dx, dy, dz))

----------------------------------------------------------------------------
(* utils/privacy.ts *)

\* 1 / latPerMeter and 1 / lonPerMeter: metres per degree "around Japan".
FuzzMetresPerDegreeLat == 111000
FuzzMetresPerDegreeLon == 91000

\* A value of Math.random() is held in thousandths: 0 .. RandomScale - 1.
RandomScale == 1000

\* const angle = Math.random() * Math.PI * 2
FuzzAngle(random) == random * 360 * (AngleScale \div RandomScale)

\* Mutant of FuzzDistance: the draw scales the maximum alone.
FuzzDistance_FromZero(minOffsetMeters, maxOffsetMeters, random) ==
    (random * maxOffsetMeters) \div RandomScale

\* const distance = minOffsetMeters + Math.random() * (maxOffsetMeters - minOffsetMeters)
FuzzDistance(minOffsetMeters, maxOffsetMeters, random) ==
    minOffsetMeters + (random * (maxOffsetMeters - minOffsetMeters)) \div RandomScale

\* fuzzPosition, given the two values Math.random() returns to it.
fuzzPosition(position, minOffsetMeters, maxOffsetMeters, random1, random2) ==
    LET angle     == FuzzAngle(random1)
        distance  == FuzzDistance(minOffsetMeters, maxOffsetMeters, random2)
        latOffset == MetresToDegrees((MathSin(angle) * distance) \div Scale,
                                     FuzzMetresPerDegreeLat)
        lonOffset == MetresToDegrees((MathCos(angle) * distance) \div Scale,
                                     FuzzMetresPerDegreeLon)
    IN  [latitude  |-> position.latitude + latOffset,
         longitude |-> position.longitude + lonOffset,
         altitude  |-> position.altitude]

----------------------------------------------------------------------------
(* utils/developerObjects.ts: the hard-coded developer objects *)

NoUser     == "null"          \* userId: null
NoOwner    == "undefined"     \* ownerId: undefined
NoCreature == "undefined"     \* creature: undefined
NoConfig   == FlightConfig("undefined", 0, 0, 0, 0)    \* flightConfig: undefined

PlacedObject(id, position, objectType, creature, flightConfig, ownerId) ==
    [id |-> id, position |-> position, objectType |-> objectType,
     creature |-> creature, flightConfig |-> flightConfig, ownerId |-> ownerId]

developerObjects ==
    << PlacedObject("dev-dragon-tokyo",
                    GeoPosition(35681200, 139767100, Num(30 * Scale)), "flying", "dragon",
                    FlightConfig("circle", 50 * Scale, 20 * Scale, 50 * Scale, 10), NoOwner),
       PlacedObject("dev-ufo-shibuya",
                    GeoPosition(35658000, 139701600, Num(40 * Scale)), "flying", "ufo",
                    FlightConfig("figure8", 40 * Scale, 30 * Scale, 60 * Scale, 8), NoOwner),
       PlacedObject("dev-bird-shinjuku",
                    GeoPosition(35689600, 139700600, Num(25 * Scale)), "flying", "bird",
                    FlightConfig("random", 60 * Scale, 15 * Scale, 40 * Scale, 12), NoOwner) >>

\* getDeveloperObjectsAsPlaced: [...publicObjects, ...devObjects]
getDeveloperObjectsAsPlaced == publicObjects \o developerObjects

----------------------------------------------------------------------------
(* store/objectStore and the backend table ar_objects *)

MaxObjects == 1     \* objects created in one run (crypto.randomUUID() calls)
MaxTicks   == 1     \* clock advances in one run

\* The calls of initialize() in one run: App's mount effect.
InitCalls == {1}

TheUser == "user-a"   \* the id the auth service gives this device

\* const defaultFlightConfig of the store
defaultFlightConfig == FlightConfig("circle", 30 * Scale, 15 * Scale, 40 * Scale, 10)

Max(a, b) == IF a >= b THEN a ELSE b

Ids(list) == {list[i].id : i \in 1..Len(list)}

\* { ...defaultFlightConfig, ...customConfig }
MergeConfig(default, custom) ==
    [f \in DOMAIN default |-> IF f \in DOMAIN custom THEN custom[f] ELSE default[f]]

\* userId || undefined
OwnerOf(uid) == IF uid = NoUser THEN NoOwner ELSE uid

\* The row an insert sends for newObject.
RowOf(newObject, uid) ==
    [id |-> newObject.id, owner_id |-> uid, is_public |-> TRUE,
     position |-> newObject.position, object_type |-> newObject.objectType,
     creature |-> newObject.creature, flight_config |-> newObject.flightConfig]

\* data.map(obj => ({ id: obj.id, position: obj.position, ... }))
ObjectOfRow(row) ==
    PlacedObject(row.id, row.position, row.object_type, row.creature,
                 row.flight_config, row.owner_id)

\* The rows of a select as objects, in the (fixed) order the backend returns them.
RECURSIVE RowsInOrder(_)
RowsInOrder(S) ==
    IF S = {} THEN <<>>
    ELSE LET r == CHOOSE x \in S : TRUE
         IN  <<ObjectOfRow(r)>> \o RowsInOrder(S \ {r})

\* Rows other clients of the backend may have stored before this run.
BackendRowSamples ==
    { [id |-> "row-own", owner_id |-> TheUser, is_public |-> TRUE,
       position |-> GeoPosition(35681300, 139767200, Num(10 * Scale)),
       object_type |-> "flying", creature |-> "bird",
       flight_config |-> FlightConfig("random", 30 * Scale, 15 * Scale, 40 * Scale, 0)],
      [id |-> "row-public", owner_id |-> "user-b", is_public |-> TRUE,
       position |-> GeoPosition(35681100, 139767000, NaN),
       object_type |-> "flying", creature |-> "ufo",
       flight_config |-> FlightConfig("figure8", 40 * Scale, 30 * Scale, 60 * Scale, 8)] }

\* addObject: (position, name, color) => { ... }
addObject(position) ==
    /\ nextId < MaxObjects
    /\ LET newObject == PlacedObject(ToString(nextId + 1), position, "static",
                                     NoCreature, NoConfig, OwnerOf(userId))
       IN  /\ objects' = Append(objects, newObject)
           /\ pending' = IF userId # NoUser
                         THEN pending \cup {[kind |-> "insert", row |-> RowOf(newObject, userId)]}
                         ELSE pending
    /\ nextId' = nextId + 1
    /\ UNCHANGED <<publicObjects, userId, isInitialized, initPc, initUser, rows, viewVars>>

\* addFlyingObject: (position, creature, customConfig) => { ... }
addFlyingObject(position, creature, customConfig) ==
    /\ nextId < MaxObjects
    /\ LET flightConfig == MergeConfig(defaultFlightConfig, customConfig)
           newObject == PlacedObject(ToString(nextId + 1), position, "flying",
                                     creature, flightConfig, OwnerOf(userId))
       IN  /\ objects' = Append(objects, newObject)
           /\ pending' = IF userId # NoUser
                         THEN pending \cup {[kind |-> "insert", row |-> RowOf(newObject, userId)]}
                         ELSE pending
    /\ nextId' = nextId + 1
    /\ UNCHANGED <<publicObjects, userId, isInitialized, initPc, initUser, rows, viewVars>>

\* removeObject: (id) => { ... }
removeObject(id) ==
    /\ objects' = SelectSeq(objects, LAMBDA obj : obj.id # id)
    /\ pending' = IF userId # NoUser
                  THEN pending \cup {[kind |-> "delete", ids |-> {id}, owner_id |-> userId]}
                  ELSE pending
    /\ UNCHANGED <<publicObjects, userId, isInitialized, initPc, initUser, nextId, rows, viewVars>>

\* clearAll: () => { ... }
clearAll ==
    /\ objects' = <<>>
    /\ pending' = IF userId # NoUser /\ Len(objects) > 0
                  THEN pending \cup {[kind |-> "delete", ids |-> Ids(objects), owner_id |-> userId]}
                  ELSE pending
    /\ UNCHANGED <<publicObjects, userId, isInitialized, initPc, initUser, nextId, rows, viewVars>>

\* The backend processes one request: an insert adds its row unless the id (the
\* primary key) is taken, a delete removes the owner's rows with the given ids.
BackendProcess ==
    \E req \in pending :
        /\ pending' = pending \ {req}
        /\ rows' = IF req.kind = "insert"
                   THEN (IF \E r \in rows : r.id = req.row.id THEN rows ELSE rows \cup {req.row})
                   ELSE {r \in rows : ~ (r.id \in req.ids /\ r.owner_id = req.owner_id)}
        /\ UNCHANGED <<storeVars, viewVars>>

\* initialize, up to its first await: if (get().isInitialized) return; then
\* getOrCreateUserId() is called.
initializeCall(c) ==
    /\ initPc[c] = "idle"
    /\ initPc' = [initPc EXCEPT ![c] = IF isInitialized THEN "done" ELSE "auth"]
    /\ UNCHANGED <<objects, publicObjects, userId, isInitialized, initUser, nextId,
                   backendVars, viewVars>>

\* How the two auth requests of getOrCreateUserId() can end: a stored session, a
\* fresh anonymous sign-in, a sign-in error, a rejected promise, or no answer
\* within the 5 s of withTimeout.
AuthOutcomes == {"session", "signedIn", "error", "throws", "timeout"}

\* getOrCreateUserId(): the user's id, or null after an error, a throw or a timeout.
getOrCreateUserId(outcome) ==
    IF outcome \in {"session", "signedIn"} THEN TheUser ELSE NoUser

\* Mutant of initializeAuthenticated: the store is initialized only with a user.
initializeAuthenticated_NeedsUser(c, uid) ==
    /\ initPc[c] = "auth"
    /\ userId' = uid
    /\ isInitialized' = (uid # NoUser)
    /\ initUser' = [initUser EXCEPT ![c] = uid]
    /\ initPc' = [initPc EXCEPT ![c] = "fetchPublic"]
    /\ UNCHANGED <<objects, publicObjects, nextId, backendVars, viewVars>>

\* getOrCreateUserId() resolves (a user id, or null after an error or a timeout):
\* set({ userId, isInitialized: true }), then fetchPublicObjects() is called.
initializeAuthenticated(c, uid) ==
    /\ initPc[c] = "auth"
    /\ userId' = uid
    /\ isInitialized' = TRUE
    /\ initUser' = [initUser EXCEPT ![c] = uid]
    /\ initPc' = [initPc EXCEPT ![c] = "fetchPublic"]
    /\ UNCHANGED <<objects, publicObjects, nextId, backendVars, viewVars>>

\* fetchPublicObjects() resolves: with data, set({ publicObjects }); with an error,
\* nothing. Then, if (userId), the user's own rows are selected.
initializePublicFetched(c, ok) ==
    /\ initPc[c] = "fetchPublic"
    /\ publicObjects' =
           IF ok THEN RowsInOrder({r \in rows : r.is_public /\ r.owner_id # userId})
                 ELSE publicObjects
    /\ initPc' = [initPc EXCEPT ![c] = IF initUser[c] # NoUser THEN "fetchOwn" ELSE "done"]
    /\ UNCHANGED <<objects, userId, isInitialized, initUser, nextId, backendVars, viewVars>>

\* The select of the user's own rows resolves: if (data) set({ objects }).
initializeOwnFetched(c, ok) ==
    /\ initPc[c] = "fetchOwn"
    /\ objects' = IF ok THEN RowsInOrder({r \in rows : r.owner_id = initUser[c]})
                        ELSE objects
    /\ initPc' = [initPc EXCEPT ![c] = "done"]
    /\ UNCHANGED <<publicObjects, userId, isInitialized, initUser, nextId, backendVars, viewVars>>

----------------------------------------------------------------------------
(* store/socialStore (bundled in store/profileStore.ts): presence broadcast *)

MaxBroadcasts == 1     \* broadcasts sent and not yet delivered

NoRoom == "null"       \* currentRoomId: null (the public room)

\* Two of the eight colours getRandomColor picks from.
ColorSamples == {"#f87171", "#e879f9"}

\* fuzzPosition's default minOffsetMeters and maxOffsetMeters.
DefaultMinOffset == 10 * Scale
DefaultMaxOffset == 50 * Scale

\* Mutant of broadcastPresence: the position is sent as it was given.
broadcastPresence_Exact(position, currentUserId, random1, random2, color) ==
    /\ Len(channel) < MaxBroadcasts
    /\ bPosition' = position
    /\ channel' =
         IF currentUserId = NoUser THEN channel
         ELSE Append(channel,
                     [type |-> "broadcast", event |-> "presence",
                      payload |-> [userId |-> currentUserId, position |-> position,
                                   color |-> color, roomId |-> currentRoomId]])
    /\ UNCHANGED <<currentRoomId, onlineUsers, otherFootprints>>

\* broadcastPresence(position); currentUserId is what getCurrentUserId() reads from
\* localStorage, random1 / random2 / color what Math.random() gives fuzzPosition
\* and getRandomColor.
broadcastPresence(position, currentUserId, random1, random2, color) ==
    /\ Len(channel) < MaxBroadcasts
    /\ bPosition' = position
    /\ channel' =
         IF currentUserId = NoUser THEN channel
         ELSE LET fuzzedPos == fuzzPosition(position, DefaultMinOffset, DefaultMaxOffset,
                                            random1, random2)
              IN  Append(channel,
                         [type |-> "broadcast", event |-> "presence",
                          payload |-> [userId |-> currentUserId, position |-> fuzzedPos,
                                       color |-> color, roomId |-> currentRoomId]])
    /\ UNCHANGED <<currentRoomId, onlineUsers, otherFootprints>>

\* The realtime service delivers the oldest broadcast to the other clients.
deliverBroadcast ==
    /\ channel # <<>>
    /\ channel' = Tail(channel)
    /\ UNCHANGED <<bPosition, currentRoomId, onlineUsers, otherFootprints>>

\* joinRoom(roomId)
joinRoom(roomId) ==
    /\ currentRoomId' = roomId
    /\ onlineUsers' = {}
    /\ otherFootprints' = <<>>
    /\ UNCHANGED <<bPosition, channel>>

\* leaveRoom()
leaveRoom ==
    /\ currentRoomId' = NoRoom
    /\ onlineUsers' = {}
    /\ otherFootprints' = <<>>
    /\ UNCHANGED <<bPosition, channel>>

----------------------------------------------------------------------------
(* components/Map3DView.tsx *)

\* The crosshair positions the camera can point at: altitude Math.max(0, height || 0).
CrosshairSamples ==
    { GeoPosition(35681400, 139767300, Num(0)),
      GeoPosition(35681000, 139766900, Num(20300)) }

\* The place modes sampled ('bird' and 'ufo' differ from 'dragon' in name and colour).
PlaceModes == {"static", "dragon"}

\* const placeAltitude = 0
placeAltitude == 0

\* placeObject with crosshairPosition set; 'ugc' only opens the creator panel.
placeObject(crosshairPosition, placeMode) ==
    /\ isInitialized
    /\ LET groundAltitude == OrZero(crosshairPosition.altitude)
           positionWithAltitude ==
               [crosshairPosition EXCEPT !.altitude = Num(groundAltitude + placeAltitude)]
           actualAlt == groundAltitude + placeAltitude
       IN  IF placeMode = "static"
           THEN addObject(positionWithAltitude)
           ELSE addFlyingObject(positionWithAltitude, placeMode,
                    [radius |-> 30 * Scale,
                     minAltitude |-> Max(actualAlt, 15 * Scale),
                     maxAltitude |-> Max(actualAlt + 25 * Scale, 40 * Scale)])

\* allObjects while currentPosition is null (no position fix yet): allUnfiltered.
allObjectsMap3D ==
    LET sharedObjects == getDeveloperObjectsAsPlaced
        myObjects == SelectSeq(objects,
                        LAMBDA obj : obj.ownerId = userId \/ obj.ownerId = NoOwner)
        otherObjects == SelectSeq(sharedObjects, LAMBDA o : ~ (o.id \in Ids(myObjects)))
    IN  myObjects \o otherObjects

FlyingOf(list) == SelectSeq(list, LAMBDA obj : obj.objectType = "flying")

\* The Map updatePositions builds: one entry per flying object with a flightConfig.
NewPositions(flying, time) ==
    LET withConfig == SelectSeq(flying, LAMBDA obj : obj.flightConfig # NoConfig)
    IN  [id \in Ids(withConfig) |->
            LET i == CHOOSE k \in 1..Len(withConfig) :
                        /\ withConfig[k].id = id
                        /\ \A j \in (k + 1)..Len(withConfig) : withConfig[j].id # id
            IN  calculateCurrentPosition(withConfig[i].position,
                                         withConfig[i].flightConfig, time)]

\* The position effect runs (mount, or allObjects changed): it captures the flying
\* objects and, unless there are none, calls updatePositions() and starts the interval.
positionEffect ==
    /\ isInitialized
    /\ flyingObjects # FlyingOf(allObjectsMap3D)
    /\ flyingObjects' = FlyingOf(allObjectsMap3D)
    /\ IF FlyingOf(allObjectsMap3D) # <<>>
       THEN /\ flyingPositions' = NewPositions(FlyingOf(allObjectsMap3D), now)
            /\ mapTickAt' = now
       ELSE UNCHANGED <<flyingPositions, mapTickAt>>
    /\ UNCHANGED <<storeVars, backendVars, now, mode, arPositions, arFrameAt>>

\* setInterval(updatePositions, 100)
TickMs == 100

\* Mutant of updatePositions: each computed position is also stored as the
\* position of the user's object, so the next tick starts from it.
updatePositions_WriteBack ==
    /\ isInitialized
    /\ flyingObjects # <<>>
    /\ flyingPositions' = NewPositions(flyingObjects, now)
    /\ mapTickAt' = now
    /\ objects' = [i \in 1..Len(objects) |->
                     IF objects[i].id \in DOMAIN NewPositions(flyingObjects, now)
                     THEN [objects[i] EXCEPT
                              !.position = NewPositions(flyingObjects, now)[objects[i].id]]
                     ELSE objects[i]]
    /\ UNCHANGED <<publicObjects, userId, isInitialized, initPc, initUser, nextId,
                   backendVars, now, mode, flyingObjects, arPositions, arFrameAt>>

\* The interval fires: updatePositions over the captured flying objects.
updatePositions ==
    /\ isInitialized
    /\ flyingObjects # <<>>
    /\ flyingPositions' = NewPositions(flyingObjects, now)
    /\ mapTickAt' = now
    /\ UNCHANGED <<storeVars, backendVars, now, mode, flyingObjects, arPositions, arFrameAt>>

----------------------------------------------------------------------------
(* components/ARView.tsx *)

\* The device position and the calibration offset (localStorage) of the AR session.
devicePositionAR == GeoPosition(35681200, 139767000, Num(12 * Scale))
calibrationOffset == 1500

\* (diff degrees) * (metres per degree), as a length.
DegreesToMetres(diff, metersPerDegree) ==
    (diff * (metersPerDegree \div 10)) \div (DegScale \div (Scale * 10))

\* calculateWorldPosition of ARObject
calculateWorldPosition(pos, devicePosition) ==
    LET latDiff == pos.latitude - devicePosition.latitude
        lonDiff == pos.longitude - devicePosition.longitude
        objectAlt == OrZero(pos.altitude)
        deviceAlt == OrZero(devicePosition.altitude)
    IN  [x |-> DegreesToMetres(lonDiff, metersPerDegreeLon(devicePosition.latitude)),
         y |-> objectAlt - (deviceAlt + calibrationOffset),
         z |-> -DegreesToMetres(latDiff, metersPerDegreeLat)]

\* allObjects of ARView before the distance filter: merged.
mergedAR ==
    LET sharedObjects == getDeveloperObjectsAsPlaced
        otherObjects == SelectSeq(sharedObjects, LAMBDA o : ~ (o.id \in Ids(objects)))
    IN  objects \o otherObjects

\* useFrame of one ARObject: the position its group is moved to.
ARObjectFrame(object, time) ==
    calculateWorldPosition(calculateCurrentPosition(object.position, object.flightConfig, time),
                           devicePositionAR)

\* One rendered frame: the useFrame callback of every mounted flying ARObject runs.
\* (Which objects are mounted is decided by the distance culling; every flying
\* object of the merged list is taken as mounted.)
arFrame ==
    /\ isInitialized
    /\ mode = "ar"
    /\ LET moving == SelectSeq(mergedAR, LAMBDA o : o.objectType = "flying"
                                                    /\ o.flightConfig # NoConfig)
       IN  arPositions' =
               [id \in Ids(moving) |->
                   LET i == CHOOSE k \in 1..Len(moving) : moving[k].id = id
                   IN  ARObjectFrame(moving[i], now)]
    /\ arFrameAt' = now
    /\ UNCHANGED <<storeVars, backendVars, now, mode, flyingObjects, flyingPositions, mapTickAt>>

----------------------------------------------------------------------------
(* The visibility filter of Map3DView.tsx and ARView.tsx *)

NoPosition == [null |-> TRUE]        \* a position state that is null

\* const VISIBLE_RADIUS = 2000 (metres)
VISIBLE_RADIUS == 2000 * EcefScale

\* x <= n on JavaScript numbers: false when x is NaN.
JsLessEq(x, n) == ~ x.nan /\ x.val <= n

\* Positions the geolocation API reports: Tokyo station and Osaka station.
DevicePositionSamples ==
    { GeoPosition(35681200, 139767000, Num(12 * Scale)),
      GeoPosition(34702500, 135495900, Num(0)) }

\* allObjects of Map3DView: the merged list, filtered once currentPosition is set.
allObjectsOfMap3DView ==
    IF currentPosition = NoPosition THEN allObjectsMap3D
    ELSE SelectSeq(allObjectsMap3D,
                   LAMBDA obj : JsLessEq(calculateDistance(currentPosition, obj.position),
                                         VISIBLE_RADIUS))

\* Mutant of allObjectsOfARView: only the user's objects are filtered.
allObjectsOfARView_SharedUnfiltered ==
    IF arDevicePosition = NoPosition THEN mergedAR
    ELSE SelectSeq(mergedAR,
                   LAMBDA obj : \/ obj.ownerId # userId
                                \/ JsLessEq(calculateDistance(arDevicePosition, obj.position),
                                            VISIBLE_RADIUS))

\* allObjects of ARView: the merged list, filtered once arDevicePosition is set.
allObjectsOfARView ==
    IF arDevicePosition = NoPosition THEN mergedAR
    ELSE SelectSeq(mergedAR,
                   LAMBDA obj : JsLessEq(calculateDistance(arDevicePosition, obj.position),
                                         VISIBLE_RADIUS))

\* locateMe succeeds: setCurrentPosition(...)
locateMe(pos) ==
    /\ currentPosition # pos
    /\ currentPosition' = pos
    /\ UNCHANGED <<arDevicePosition, mapScene, arScene>>

\* useGeolocation's watch reports a (smoothed) position: setState({ position })
handleSuccess(pos) ==
    /\ arDevicePosition # pos
    /\ arDevicePosition' = pos
    /\ UNCHANGED <<currentPosition, mapScene, arScene>>

\* Map3DView renders: the entities of allObjects are handed to the Cesium scene.
renderMap3DView ==
    /\ isInitialized
    /\ mapScene' = [position |-> currentPosition, allObjects |-> allObjectsOfMap3DView]
    /\ UNCHANGED <<currentPosition, arDevicePosition, arScene>>

\* ARView renders: with a device position, allObjects is handed to ARScene.
renderARView ==
    /\ isInitialized
    /\ mode = "ar"
    /\ arDevicePosition # NoPosition
    /\ arScene' = [position |-> arDevicePosition, allObjects |-> allObjectsOfARView]
    /\ UNCHANGED <<currentPosition, arDevicePosition, mapScene>>

----------------------------------------------------------------------------
(* store/socialStore: the handlers of the channel 'tracking_room' *)

MaxReceived == 3     \* broadcasts the handlers are called with in one run

\* Mutant of presenceReceived: the room of the message is not looked at.
presenceReceived_AnyRoom(payload, currentUserId) ==
    /\ Len(received) < MaxReceived
    /\ received' = Append(received, [event |-> "presence", payload |-> payload])
    /\ IF payload.userId = currentUserId
       THEN UNCHANGED <<onlineUsers, otherFootprints>>
       ELSE /\ onlineUsers' = {u \in onlineUsers : u.userId # payload.userId} \cup
                 {[userId |-> payload.userId, position |-> payload.position,
                   lastActive |-> now,
                   color |-> IF payload.color = "" THEN "#fff" ELSE payload.color]}
            /\ otherFootprints' = Append(otherFootprints, payload.position)
    /\ UNCHANGED <<bPosition, channel, currentRoomId, objectReactions, objectComments>>

\* .on('broadcast', { event: 'presence' }, ...); currentUserId is what
\* getCurrentUserId() reads. The slice(-500) is beyond MaxReceived.
presenceReceived(payload, currentUserId) ==
    /\ Len(received) < MaxReceived
    /\ received' = Append(received, [event |-> "presence", payload |-> payload])
    /\ IF payload.userId = currentUserId \/ payload.roomId # currentRoomId
       THEN UNCHANGED <<onlineUsers, otherFootprints>>
       ELSE /\ onlineUsers' = {u \in onlineUsers : u.userId # payload.userId} \cup
                 {[userId |-> payload.userId, position |-> payload.position,
                   lastActive |-> now,
                   color |-> IF payload.color = "" THEN "#fff" ELSE payload.color]}
            /\ otherFootprints' = Append(otherFootprints, payload.position)
    /\ UNCHANGED <<bPosition, channel, currentRoomId, objectReactions, objectComments>>

\* .on('broadcast', { event: 'reaction' }, ...)
reactionReceived(payload) ==
    /\ Len(received) < MaxReceived
    /\ received' = Append(received, [event |-> "reaction", payload |-> payload])
    /\ objectReactions' =
         IF payload.roomId # currentRoomId THEN objectReactions
         ELSE IF \E r \in objectReactions :
                    r.objectId = payload.objectId /\ r.userId = payload.userId
         THEN objectReactions
         ELSE objectReactions \cup
                {[objectId |-> payload.objectId, userId |-> payload.userId,
                  type |-> payload.type]}
    /\ UNCHANGED <<socialVars, objectComments>>

\* .on('broadcast', { event: 'comment' }, ...)
commentReceived(payload) ==
    /\ Len(received) < MaxReceived
    /\ received' = Append(received, [event |-> "comment", payload |-> payload])
    /\ objectComments' =
         IF payload.roomId # currentRoomId THEN objectComments
         ELSE Append(objectComments,
                     [objectId |-> payload.objectId, id |-> payload.id,
                      userId |-> payload.userId, text |-> payload.text,
                      timestamp |-> payload.timestamp])
    /\ UNCHANGED <<socialVars, objectReactions>>

----------------------------------------------------------------------------
(* store/followStore and the backend tables follows and profiles *)

MaxFollowCalls == 3     \* calls of followUser / unfollowUser in one run

\* The users this user can follow; each has a row in profiles.
FollowTargets == {"user-b", "user-c"}

\* { id: profile.id, displayName: profile.display_name, avatarColor: profile.avatar_color }
ProfileOf(id) ==
    [id |-> id,
     displayName |-> IF id = "user-b" THEN "Bea" ELSE "Cy",
     avatarColor |-> IF id = "user-b" THEN "#f87171" ELSE "#34d399"]

Range(list) == {list[i] : i \in 1..Len(list)}

\* followUser up to its first await: the snapshot, the early return, the local
\* update; the insert is then in flight.
followUser(targetUserId) ==
    /\ followNext < MaxFollowCalls
    /\ followNext' = followNext + 1
    /\ IF targetUserId \in Range(following)
       THEN UNCHANGED <<following, followCalls>>
       ELSE /\ following' = Append(following, targetUserId)
            /\ followCalls' = followCalls \cup
                 {[call |-> followNext + 1, kind |-> "follow", pc |-> "insert",
                   target |-> targetUserId, following |-> following,
                   followingProfiles |-> followingProfiles]}
    /\ UNCHANGED <<followingProfiles, followRows, followFailed>>

\* The insert into follows answers: with an error, set({ following }) restores
\* the snapshot; without one, the profile is selected.
followInserted(c, ok) ==
    /\ c \in followCalls
    /\ c.kind = "follow"
    /\ c.pc = "insert"
    /\ IF ok
       THEN /\ followRows' = followRows \cup {c.target}
            /\ followCalls' = (followCalls \ {c}) \cup {[c EXCEPT !.pc = "profile"]}
            /\ UNCHANGED <<following, followFailed>>
       ELSE /\ following' = c.following
            /\ followCalls' = followCalls \ {c}
            /\ followFailed' = TRUE
            /\ UNCHANGED followRows
    /\ UNCHANGED <<followingProfiles, followNext>>

\* The select of the profile answers: if (profile) set({ followingProfiles:
\* [...followingProfiles, {...}] }), with the followingProfiles of the snapshot.
followProfileFetched(c, ok) ==
    /\ c \in followCalls
    /\ c.kind = "follow"
    /\ c.pc = "profile"
    /\ followCalls' = followCalls \ {c}
    /\ IF ok
       THEN /\ followingProfiles' = Append(c.followingProfiles, ProfileOf(c.target))
            /\ UNCHANGED followFailed
       ELSE /\ followFailed' = TRUE
            /\ UNCHANGED followingProfiles
    /\ UNCHANGED <<following, followNext, followRows>>

\* unfollowUser up to its await: the snapshot and the local update; the delete
\* is then in flight.
unfollowUser(targetUserId) ==
    /\ followNext < MaxFollowCalls
    /\ followNext' = followNext + 1
    /\ following' = SelectSeq(following, LAMBDA id : id # targetUserId)
    /\ followingProfiles' = SelectSeq(followingProfiles, LAMBDA prof : prof.id # targetUserId)
    /\ followCalls' = followCalls \cup
         {[call |-> followNext + 1, kind |-> "unfollow", pc |-> "delete",
           target |-> targetUserId, following |-> following,
           followingProfiles |-> followingProfiles]}
    /\ UNCHANGED <<followRows, followFailed>>

\* The delete answers: with an error, set({ following, followingProfiles })
\* restores both snapshots.
unfollowDeleted(c, ok) ==
    /\ c \in followCalls
    /\ c.kind = "unfollow"
    /\ followCalls' = followCalls \ {c}
    /\ IF ok
       THEN /\ followRows' = followRows \ {c.target}
            /\ UNCHANGED <<following, followingProfiles, followFailed>>
       ELSE /\ following' = c.following
            /\ followingProfiles' = c.followingProfiles
            /\ followFailed' = TRUE
            /\ UNCHANGED followRows
    /\ UNCHANGED followNext

----------------------------------------------------------------------------
(* store/feedStore and its queries on ar_objects *)

MaxFeedCalls == 3     \* calls of fetchFeed / loadMore / refresh in one run

PAGE_SIZE == 20

\* cursor: null. The created_at values of the rows are positive.
NoCursor == 0

\* feedFetched when the last fetchFeed failed or a loadMore was started after it.
NoFetch == [none |-> TRUE]

\* .in('owner_id', followingIds) [.lt('created_at', cursor)]
\* .order('created_at', { ascending: false }).limit(PAGE_SIZE), on rows held
\* newest first.
FeedQuery(followingIds, before) ==
    LET matching == SelectSeq(feedRows,
                      LAMBDA row : /\ row.owner_id \in Range(followingIds)
                                   /\ (before = NoCursor \/ row.created_at < before))
    IN  SubSeq(matching, 1, IF Len(matching) < PAGE_SIZE THEN Len(matching) ELSE PAGE_SIZE)

\* objects.map(obj => ({ id: `obj-${obj.id}`, timestamp, object, actor }))
FeedItems(objectRows) ==
    [i \in 1..Len(objectRows) |->
        [id |-> objectRows[i].id, type |-> "object_placed",
         timestamp |-> objectRows[i].created_at,
         actor |-> ProfileOf(objectRows[i].owner_id)]]

\* fetchFeed up to its first await.
fetchFeed(followingIds) ==
    /\ feedNext < MaxFeedCalls
    /\ feedNext' = feedNext + 1
    /\ IF Len(followingIds) = 0
       THEN /\ items' = <<>>
            /\ isLoading' = FALSE
            /\ hasMore' = FALSE
            /\ cursor' = NoCursor
            /\ feedFetched' = [followingIds |-> followingIds]
            /\ UNCHANGED feedCalls
       ELSE /\ isLoading' = TRUE
            /\ feedCalls' = feedCalls \cup
                 {[call |-> feedNext + 1, kind |-> "fetchFeed", followingIds |-> followingIds,
                   items |-> <<>>, cursor |-> NoCursor]}
            /\ UNCHANGED <<items, hasMore, cursor, feedFetched>>
    /\ UNCHANGED <<feedRows, feedFollowing>>

\* refresh(followingIds): set({ cursor: null, hasMore: true }), then fetchFeed,
\* which runs up to its first await in the same turn.
refresh(followingIds) ==
    /\ feedNext < MaxFeedCalls
    /\ feedNext' = feedNext + 1
    /\ IF Len(followingIds) = 0
       THEN /\ items' = <<>>
            /\ isLoading' = FALSE
            /\ hasMore' = FALSE
            /\ cursor' = NoCursor
            /\ feedFetched' = [followingIds |-> followingIds]
            /\ UNCHANGED feedCalls
       ELSE /\ cursor' = NoCursor
            /\ hasMore' = TRUE
            /\ isLoading' = TRUE
            /\ feedCalls' = feedCalls \cup
                 {[call |-> feedNext + 1, kind |-> "fetchFeed", followingIds |-> followingIds,
                   items |-> <<>>, cursor |-> NoCursor]}
            /\ UNCHANGED <<items, feedFetched>>
    /\ UNCHANGED <<feedRows, feedFollowing>>

\* The queries of a fetchFeed call answer (the rows do not change between its
\* two awaits, so its one set(...) is the step).
fetchFeedAnswered(c, ok) ==
    /\ c \in feedCalls
    /\ c.kind = "fetchFeed"
    /\ feedCalls' = feedCalls \ {c}
    /\ LET objectRows == FeedQuery(c.followingIds, NoCursor)
       IN  IF ~ ok
           THEN /\ isLoading' = FALSE
                /\ feedFetched' = NoFetch
                /\ UNCHANGED <<items, hasMore, cursor>>
           ELSE IF Len(objectRows) = 0
           THEN /\ items' = <<>>
                /\ isLoading' = FALSE
                /\ hasMore' = FALSE
                /\ cursor' = NoCursor
                /\ feedFetched' = [followingIds |-> c.followingIds]
           ELSE /\ items' = FeedItems(objectRows)
                /\ isLoading' = FALSE
                /\ hasMore' = (Len(objectRows) >= PAGE_SIZE)
                /\ cursor' = objectRows[Len(objectRows)].created_at
                /\ feedFetched' = [followingIds |-> c.followingIds]
    /\ UNCHANGED <<feedNext, feedRows, feedFollowing>>

\* loadMore up to its first await.
loadMore(followingIds) ==
    /\ feedNext < MaxFeedCalls
    /\ feedNext' = feedNext + 1
    /\ IF ~ hasMore \/ isLoading \/ cursor = NoCursor \/ Len(followingIds) = 0
       THEN UNCHANGED <<isLoading, feedCalls, feedFetched>>
       ELSE /\ isLoading' = TRUE
            /\ feedCalls' = feedCalls \cup
                 {[call |-> feedNext + 1, kind |-> "loadMore", followingIds |-> followingIds,
                   items |-> items, cursor |-> cursor]}
            /\ feedFetched' = NoFetch
    /\ UNCHANGED <<items, hasMore, cursor, feedRows, feedFollowing>>

\* The queries of a loadMore call answer: items: [...items, ...newItems] with the
\* items and the cursor the call read when it started.
loadMoreAnswered(c, ok) ==
    /\ c \in feedCalls
    /\ c.kind = "loadMore"
    /\ feedCalls' = feedCalls \ {c}
    /\ LET objectRows == FeedQuery(c.followingIds, c.cursor)
       IN  IF ~ ok
           THEN /\ isLoading' = FALSE
                /\ UNCHANGED <<items, hasMore, cursor>>
           ELSE IF Len(objectRows) = 0
           THEN /\ isLoading' = FALSE
                /\ hasMore' = FALSE
                /\ UNCHANGED <<items, cursor>>
           ELSE /\ items' = c.items \o FeedItems(objectRows)
                /\ isLoading' = FALSE
                /\ hasMore' = (Len(objectRows) >= PAGE_SIZE)
                /\ cursor' = objectRows[Len(objectRows)].created_at
    /\ UNCHANGED <<feedNext, feedRows, feedFollowing, feedFetched>>

----------------------------------------------------------------------------
(* components/SmartMapView.tsx *)

MaxMounts  == 3     \* mounts of SmartMapView (page loads) in one run
MaxRenders == 8     \* views one mount renders

\* What SmartMapView returns for a value of useFallback: the spinner while it is
\* null, <MapView /> (Leaflet, 2D) when true, <Map3DView /> (Cesium) when false.
ViewOf(fallback) ==
    IF fallback = "null" THEN "loading" ELSE IF fallback = "true" THEN "2d" ELSE "3d"

\* React renders again after a state change: the view is added to this mount's
\* record when it differs from the last one.
Rendered(views, fallback) ==
    IF views # <<>> /\ views[Len(views)] = ViewOf(fallback) THEN views
    ELSE Append(views, ViewOf(fallback))

\* The messages of error events and promise rejections: three that name Cesium
\* or WebGL, one that does not, and an event without a message.
ErrorMessageSamples == {"CesiumWidget", "WebGL", "Cesium", "TypeError", "undefined"}

\* message?.includes('CesiumWidget') || ...includes('WebGL') || ...includes('Cesium')
IsCesiumError(message) == message \in {"CesiumWidget", "WebGL", "Cesium"}

\* The page is opened: SmartMapView mounts with useFallback = null and renders
\* the spinner; the mount effect has not run yet.
smMount ==
    /\ ~ smMounted
    /\ smMounts < MaxMounts
    /\ smMounted' = TRUE
    /\ smMounts' = smMounts + 1
    /\ useFallback' = "null"
    /\ smViews' = Rendered(<<>>, "null")
    /\ smFlagAtMount' = (cesiumFailed = "true")
    /\ smRetried' = FALSE
    /\ UNCHANGED cesiumFailed

\* The mount effect (useEffect(..., [])); webglOk is what checkWebGLSupport() returns.
smMountEffect(webglOk) ==
    /\ smMounted
    /\ useFallback = "null"
    /\ IF cesiumFailed = "true"
       THEN /\ useFallback' = "true"
            /\ UNCHANGED cesiumFailed
       ELSE IF ~ webglOk
       THEN /\ cesiumFailed' = "true"
            /\ useFallback' = "true"
       ELSE /\ useFallback' = "false"
            /\ UNCHANGED cesiumFailed
    /\ smViews' = Rendered(smViews, useFallback')
    /\ UNCHANGED <<smMounted, smMounts, smFlagAtMount, smRetried>>

\* Mutant of handleCesiumError: the fallback is taken without storing the flag.
handleCesiumError_NoFlag(message) ==
    /\ smMounted
    /\ useFallback = "false"
    /\ Len(smViews) < MaxRenders
    /\ IF IsCesiumError(message)
       THEN /\ useFallback' = "true"
            /\ UNCHANGED cesiumFailed
       ELSE UNCHANGED <<cesiumFailed, useFallback>>
    /\ smViews' = Rendered(smViews, useFallback')
    /\ UNCHANGED <<smMounted, smMounts, smFlagAtMount, smRetried>>

\* handleError / handleUnhandled, registered while useFallback === false.
handleCesiumError(message) ==
    /\ smMounted
    /\ useFallback = "false"
    /\ Len(smViews) < MaxRenders
    /\ IF IsCesiumError(message)
       THEN /\ cesiumFailed' = "true"
            /\ useFallback' = "true"
       ELSE UNCHANGED <<cesiumFailed, useFallback>>
    /\ smViews' = Rendered(smViews, useFallback')
    /\ UNCHANGED <<smMounted, smMounts, smFlagAtMount, smRetried>>

\* handleRetry3D, the onRetry3D button of <MapView />.
handleRetry3D ==
    /\ smMounted
    /\ useFallback = "true"
    /\ Len(smViews) < MaxRenders
    /\ cesiumFailed' = "null"
    /\ useFallback' = "false"
    /\ smViews' = Rendered(smViews, "false")
    /\ smRetried' = TRUE
    /\ UNCHANGED <<smMounted, smMounts, smFlagAtMount>>

\* The page is closed or reloaded: the component goes, localStorage stays.
smUnmount ==
    /\ smMounted
    /\ smMounted' = FALSE
    /\ UNCHANGED <<cesiumFailed, useFallback, smMounts, smViews, smFlagAtMount, smRetried>>

----------------------------------------------------------------------------
(* App.tsx and the clock *)

Modes == {"map", "ar"}

\* BottomNavBar: setMode(m). <ARView /> is mounted only while mode = 'ar'.
setMode(m) ==
    /\ isInitialized
    /\ m # mode
    /\ mode' = m
    /\ arPositions' = <<>>
    /\ UNCHANGED <<storeVars, backendVars, now, flyingObjects, flyingPositions,
                   mapTickAt, arFrameAt>>

\* Time passes: Date.now() grows by one interval period.
advanceClock ==
    /\ now < MaxTicks * TickMs
    /\ now' = now + TickMs
    /\ UNCHANGED <<storeVars, backendVars, mode, flyingObjects, flyingPositions,
                   mapTickAt, arPositions, arFrameAt>>

----------------------------------------------------------------------------
(* Inputs of the pure functions *)

MaxSegment  == 2     \* random-pattern segments -MaxSegment .. MaxSegment are sampled
MaxDistance == 2     \* ENU components range over -MaxDistance .. MaxDistance times 50 m

NoResult == [none |-> TRUE]

\* Times at, just before and inside the 5-second segment boundaries, both signs.
TimeSamples ==
    {k * 5000 + d : k \in (-MaxSegment)..MaxSegment, d \in {-1, 0, 1, 1700, 2500}}

RadiusSamples   == {0, 30 * Scale, 60 * Scale}
AltitudeSamples == {<<15 * Scale, 40 * Scale>>, <<20 * Scale, 20 * Scale>>,
                    <<50 * Scale, 40 * Scale>>}
SpeedSamples    == {0, 8, 10, 12}

ConfigSamples ==
    {FlightConfig(p, r, a[1], a[2], s) :
        p \in Patterns, r \in RadiusSamples, a \in AltitudeSamples, s \in SpeedSamples}

\* Equator/Greenwich and Tokyo station; altitude 0, 30 m, or missing.
BaseSamples ==
    {GeoPosition(ll[1], ll[2], alt) :
        ll \in {<<0, 0>>, <<35681200, 139767100>>},
        alt \in {Num(0), Num(30 * Scale), NaN}}

EnuSamples ==
    {[east |-> e * 50 * Scale, north |-> n * 50 * Scale, up |-> u * Scale] :
        e \in (-MaxDistance)..MaxDistance, n \in (-MaxDistance)..MaxDistance,
        u \in {0, 50}}

HeadingSamples == {0, 45, 90, 135, 180, 225, 270, 315}

----------------------------------------------------------------------------
(* The flight functions applied to drawn inputs *)

FlightIdle ==
    /\ fConfig = FlightConfig("circle", 0, 0, 0, 0)
    /\ fTime = 0
    /\ fBase = GeoPosition(0, 0, Num(0))
    /\ fOffset = NoResult
    /\ fPosition = NoResult

HeadingIdle ==
    /\ hEnu = [east |-> 0, north |-> 0, up |-> 0]
    /\ hHeading = 0
    /\ hOut = NoResult

AppIdle ==
    /\ objects = <<>>
    /\ publicObjects = <<>>
    /\ userId = NoUser
    /\ isInitialized = FALSE
    /\ initPc = [c \in InitCalls |-> "idle"]
    /\ initUser = [c \in InitCalls |-> NoUser]
    /\ nextId = 0
    /\ rows = {}
    /\ pending = {}
    /\ now = 0
    /\ mode = "map"
    /\ flyingObjects = <<>>
    /\ flyingPositions = <<>>
    /\ mapTickAt = 0
    /\ arPositions = <<>>
    /\ arFrameAt = 0

GeoIdle ==
    /\ gTarget = GeoPosition(0, 0, Num(0))
    /\ gOrigin = GeoPosition(0, 0, Num(0))
    /\ gHeading = 0
    /\ gOut = NoResult
    /\ gDist = NoResult

CullIdle ==
    /\ currentPosition = NoPosition
    /\ arDevicePosition = NoPosition
    /\ mapScene = [position |-> NoPosition, allObjects |-> <<>>]
    /\ arScene = [position |-> NoPosition, allObjects |-> <<>>]

FuzzIdle ==
    /\ zPosition = GeoPosition(0, 0, Num(0))
    /\ zMin = 0
    /\ zMax = 0
    /\ zDistance = NoResult
    /\ zOut = NoResult

SocialIdle ==
    /\ bPosition = NoPosition
    /\ channel = <<>>
    /\ currentRoomId = NoRoom
    /\ onlineUsers = {}
    /\ otherFootprints = <<>>

SmartIdle ==
    /\ cesiumFailed = "null"
    /\ useFallback = "null"
    /\ smMounted = FALSE
    /\ smMounts = 0
    /\ smViews = <<>>
    /\ smFlagAtMount = FALSE
    /\ smRetried = FALSE

FollowIdle ==
    /\ following = <<>>
    /\ followingProfiles = <<>>
    /\ followCalls = {}
    /\ followNext = 0
    /\ followRows = {}
    /\ followFailed = FALSE

RoomIdle ==
    /\ objectReactions = {}
    /\ objectComments = <<>>
    /\ received = <<>>

FeedIdle ==
    /\ items = <<>>
    /\ isLoading = FALSE
    /\ hasMore = TRUE
    /\ cursor = NoCursor
    /\ feedCalls = {}
    /\ feedNext = 0
    /\ feedRows = <<>>
    /\ feedFollowing = <<>>
    /\ feedFetched = NoFetch

LaterIdle == SmartIdle /\ FollowIdle /\ RoomIdle /\ FeedIdle

ExtraIdle == GeoIdle /\ CullIdle /\ FuzzIdle /\ SocialIdle /\ LaterIdle

InitFlight ==
    /\ fConfig \in ConfigSamples
    /\ fTime \in TimeSamples
    /\ fBase \in BaseSamples
    /\ fOffset = NoResult
    /\ fPosition = NoResult
    /\ HeadingIdle
    /\ AppIdle
    /\ ExtraIdle

CallFlightOffset ==
    /\ fOffset = NoResult
    /\ fOffset' = calculateFlightOffset(fConfig, fTime)
    /\ UNCHANGED <<fConfig, fTime, fBase, fPosition, headingVars, appVars, extraVars>>

CallCurrentPosition ==
    /\ fPosition = NoResult
    /\ fPosition' = calculateCurrentPosition(fBase, fConfig, fTime)
    /\ UNCHANGED <<fConfig, fTime, fBase, fOffset, headingVars, appVars, extraVars>>

NextFlight == CallFlightOffset \/ CallCurrentPosition

SpecFlight == InitFlight /\ [][NextFlight]_vars

----------------------------------------------------------------------------
(* The render-frame steps of getRelativePosition applied to drawn inputs *)

InitHeading ==
    /\ hEnu \in EnuSamples
    /\ hHeading \in HeadingSamples
    /\ hOut = NoResult
    /\ FlightIdle
    /\ AppIdle
    /\ ExtraIdle

\* Steps 3 and 4 of getRelativePosition: enuToThreeJS, then applyHeading.
RenderFromENU ==
    /\ hOut = NoResult
    /\ hOut' = applyHeading(enuToThreeJS(hEnu), hHeading)
    /\ UNCHANGED <<hEnu, hHeading, flightVars, appVars, extraVars>>

NextHeading == RenderFromENU

SpecHeading == InitHeading /\ [][NextHeading]_vars

----------------------------------------------------------------------------
(* The application: store, backend and views *)

\* Partial<FlightConfig> values a caller of addFlyingObject can pass.
CustomConfigSamples ==
    { <<>>, [minAltitude |-> 50 * Scale] }

Init ==
    /\ objects = <<>>
    /\ publicObjects = <<>>
    /\ userId = NoUser
    /\ isInitialized = FALSE
    /\ initPc = [c \in InitCalls |-> "idle"]
    /\ initUser = [c \in InitCalls |-> NoUser]
    /\ nextId = 0
    /\ rows \in {{}, BackendRowSamples}
    /\ pending = {}
    /\ now = 0
    /\ mode = "map"
    /\ flyingObjects = <<>>
    /\ flyingPositions = <<>>
    /\ mapTickAt = 0
    /\ arPositions = <<>>
    /\ arFrameAt = 0
    /\ FlightIdle
    /\ HeadingIdle
    /\ ExtraIdle

Initialize ==
    /\ \/ \E c \in InitCalls : initializeCall(c)
       \/ \E c \in InitCalls, uid \in {TheUser, NoUser} : initializeAuthenticated(c, uid)
       \/ \E c \in InitCalls, ok \in BOOLEAN : initializePublicFetched(c, ok)
       \/ \E c \in InitCalls, ok \in BOOLEAN : initializeOwnFetched(c, ok)
    /\ UNCHANGED <<flightVars, headingVars, extraVars>>

PlaceObject ==
    /\ \E c \in CrosshairSamples, m \in PlaceModes : placeObject(c, m)
    /\ UNCHANGED <<flightVars, headingVars, extraVars>>

\* A view calls the store's addFlyingObject with a custom config of its own.
CallAddFlyingObject ==
    /\ isInitialized
    /\ \E custom \in CustomConfigSamples :
           addFlyingObject(GeoPosition(35681400, 139767300, Num(0)), "bird", custom)
    /\ UNCHANGED <<flightVars, headingVars, extraVars>>

RemoveObject ==
    /\ isInitialized
    /\ \E i \in 1..Len(objects) : removeObject(objects[i].id)
    /\ UNCHANGED <<flightVars, headingVars, extraVars>>

ClearAll ==
    /\ isInitialized
    /\ clearAll
    /\ UNCHANGED <<flightVars, headingVars, extraVars>>

Backend == BackendProcess /\ UNCHANGED <<flightVars, headingVars, extraVars>>

PositionEffect == positionEffect /\ UNCHANGED <<flightVars, headingVars, extraVars>>

UpdatePositions == updatePositions /\ UNCHANGED <<flightVars, headingVars, extraVars>>

ARFrame == arFrame /\ UNCHANGED <<flightVars, headingVars, extraVars>>

SetMode == (\E m \in Modes : setMode(m)) /\ UNCHANGED <<flightVars, headingVars, extraVars>>

AdvanceClock == advanceClock /\ UNCHANGED <<flightVars, headingVars, extraVars>>

\* The object store and the backend.
Next ==
    \/ Initialize
    \/ PlaceObject
    \/ CallAddFlyingObject
    \/ RemoveObject
    \/ ClearAll
    \/ Backend

Spec == Init /\ [][Next]_vars

\* The object store and the views that animate its flying objects.
NextViews ==
    \/ Initialize
    \/ PlaceObject
    \/ PositionEffect
    \/ UpdatePositions
    \/ ARFrame
    \/ SetMode
    \/ AdvanceClock

SpecViews == Init /\ [][NextViews]_vars

\* initialize when the sign-in gives the user's id and both selects return data.
InitializeNoErrors ==
    /\ \/ \E c \in InitCalls : initializeCall(c)
       \/ \E c \in InitCalls : initializeAuthenticated(c, TheUser)
       \/ \E c \in InitCalls : initializePublicFetched(c, TRUE)
       \/ \E c \in InitCalls : initializeOwnFetched(c, TRUE)
    /\ UNCHANGED <<flightVars, headingVars, extraVars>>

\* initialize up to set({ userId, isInitialized: true }): App's mount effect calls
\* it, and getOrCreateUserId() settles whatever the auth service does.
InitializeSettles ==
    /\ \/ \E c \in InitCalls : initializeCall(c)
       \/ \E c \in InitCalls, outcome \in AuthOutcomes :
              initializeAuthenticated(c, getOrCreateUserId(outcome))
    /\ UNCHANGED <<flightVars, headingVars, extraVars>>

\* The two selects of initialize resolve, with data or with an error.
InitializeFetches ==
    /\ \/ \E c \in InitCalls, ok \in BOOLEAN : initializePublicFetched(c, ok)
       \/ \E c \in InitCalls, ok \in BOOLEAN : initializeOwnFetched(c, ok)
    /\ UNCHANGED <<flightVars, headingVars, extraVars>>

NextStartup ==
    \/ InitializeSettles
    \/ InitializeFetches
    \/ PlaceObject
    \/ RemoveObject
    \/ Backend

\* The mount effect runs and both auth requests are bounded by withTimeout, so
\* the steps of InitializeSettles are taken once they can be; the selects that
\* follow have no timeout and may never resolve.
SpecStartup == Init /\ [][NextStartup]_vars /\ WF_vars(InitializeSettles)

\* The calls of initialize() under <StrictMode>: React runs App's mount effect,
\* its cleanup and the effect again, so initialize() is called twice in a row.
StrictCalls == {1, 2}

InitStrict ==
    /\ objects = <<>>
    /\ publicObjects = <<>>
    /\ userId = NoUser
    /\ isInitialized = FALSE
    /\ initPc = [c \in StrictCalls |-> "idle"]
    /\ initUser = [c \in StrictCalls |-> NoUser]
    /\ nextId = 0
    /\ rows \in {{}, BackendRowSamples}
    /\ pending = {}
    /\ now = 0
    /\ mode = "map"
    /\ flyingObjects = <<>>
    /\ flyingPositions = <<>>
    /\ mapTickAt = 0
    /\ arPositions = <<>>
    /\ arFrameAt = 0
    /\ FlightIdle
    /\ HeadingIdle
    /\ ExtraIdle

InitializeStrict ==
    /\ \/ \E c \in StrictCalls : initializeCall(c)
       \/ \E c \in StrictCalls, outcome \in AuthOutcomes :
              initializeAuthenticated(c, getOrCreateUserId(outcome))
       \/ \E c \in StrictCalls, ok \in BOOLEAN : initializePublicFetched(c, ok)
       \/ \E c \in StrictCalls, ok \in BOOLEAN : initializeOwnFetched(c, ok)
    /\ UNCHANGED <<flightVars, headingVars, extraVars>>

NextStrict ==
    \/ InitializeStrict
    \/ PlaceObject
    \/ Backend

SpecStrict == InitStrict /\ [][NextStrict]_vars

\* The object store of an authenticated user and a backend without errors.
NextSync ==
    \/ InitializeNoErrors
    \/ PlaceObject
    \/ CallAddFlyingObject
    \/ RemoveObject
    \/ ClearAll
    \/ Backend

SpecSync == Init /\ [][NextSync]_vars

----------------------------------------------------------------------------
(* The object store and the visibility filter of the two views *)

\* A public object of another user placed in Osaka.
FarRowSamples ==
    { [id |-> "row-far", owner_id |-> "user-b", is_public |-> TRUE,
       position |-> GeoPosition(34702400, 135496000, Num(5 * Scale)),
       object_type |-> "static", creature |-> NoCreature,
       flight_config |-> NoConfig] }

\* The AR view is open (the map stays mounted behind it); the backend holds the
\* sampled rows.
InitCulling ==
    /\ objects = <<>>
    /\ publicObjects = <<>>
    /\ userId = NoUser
    /\ isInitialized = FALSE
    /\ initPc = [c \in InitCalls |-> "idle"]
    /\ initUser = [c \in InitCalls |-> NoUser]
    /\ nextId = 0
    /\ rows = BackendRowSamples \cup FarRowSamples
    /\ pending = {}
    /\ now = 0
    /\ mode = "ar"
    /\ flyingObjects = <<>>
    /\ flyingPositions = <<>>
    /\ mapTickAt = 0
    /\ arPositions = <<>>
    /\ arFrameAt = 0
    /\ FlightIdle
    /\ LaterIdle
    /\ HeadingIdle
    /\ GeoIdle
    /\ CullIdle
    /\ FuzzIdle
    /\ SocialIdle

\* The one-shot reading of Map3DView's locateMe: Tokyo station.
LocateSamples == { GeoPosition(35681200, 139767000, Num(12 * Scale)) }

LocateMe ==
    /\ \E pos \in LocateSamples : locateMe(pos)
    /\ UNCHANGED <<flightVars, headingVars, appVars, geoVars, fuzzVars, socialVars, laterVars>>

HandleSuccess ==
    /\ \E pos \in DevicePositionSamples : handleSuccess(pos)
    /\ UNCHANGED <<flightVars, headingVars, appVars, geoVars, fuzzVars, socialVars, laterVars>>

RenderMap3DView == renderMap3DView /\ UNCHANGED <<flightVars, headingVars, appVars, geoVars, fuzzVars, socialVars, laterVars>>

RenderARView == renderARView /\ UNCHANGED <<flightVars, headingVars, appVars, geoVars, fuzzVars, socialVars, laterVars>>

NextCulling ==
    \/ Initialize
    \/ PlaceObject
    \/ LocateMe
    \/ HandleSuccess
    \/ RenderMap3DView
    \/ RenderARView

SpecCulling == InitCulling /\ [][NextCulling]_vars

----------------------------------------------------------------------------
(* fuzzPosition applied to drawn inputs, and the presence broadcast *)

\* Values of Math.random(): eighths of [0, 1) and its upper end.
RandomSamples == {0, 125, 250, 375, 500, 625, 750, 875, 999}

\* (minOffsetMeters, maxOffsetMeters): the defaults, a proper range from zero,
\* equal bounds, and bounds in the wrong order.
OffsetSamples ==
    {<<DefaultMinOffset, DefaultMaxOffset>>, <<0, 5 * Scale>>,
     <<10 * Scale, 10 * Scale>>, <<50 * Scale, 10 * Scale>>}

InitFuzz ==
    /\ zPosition \in BaseSamples \cup DevicePositionSamples
    /\ \E o \in OffsetSamples : zMin = o[1] /\ zMax = o[2]
    /\ zDistance = NoResult
    /\ zOut = NoResult
    /\ FlightIdle
    /\ LaterIdle
    /\ HeadingIdle
    /\ AppIdle
    /\ GeoIdle
    /\ CullIdle
    /\ SocialIdle

CallFuzzPosition ==
    /\ zOut = NoResult
    /\ \E random1 \in RandomSamples, random2 \in RandomSamples :
          /\ zDistance' = Num(FuzzDistance(zMin, zMax, random2))
          /\ zOut' = fuzzPosition(zPosition, zMin, zMax, random1, random2)
    /\ UNCHANGED <<zPosition, zMin, zMax, flightVars, headingVars, appVars, geoVars,
                   cullVars, socialVars, laterVars>>

NextFuzz == CallFuzzPosition

SpecFuzz == InitFuzz /\ [][NextFuzz]_vars

RoomSamples == {"room-1"}

InitPresence ==
    /\ SocialIdle
    /\ FlightIdle
    /\ LaterIdle
    /\ HeadingIdle
    /\ AppIdle
    /\ GeoIdle
    /\ CullIdle
    /\ FuzzIdle

BroadcastPresence ==
    /\ \E position \in DevicePositionSamples, currentUserId \in {TheUser, NoUser},
          random1 \in RandomSamples, random2 \in {0, 500, 999}, color \in ColorSamples :
          broadcastPresence(position, currentUserId, random1, random2, color)
    /\ UNCHANGED <<flightVars, headingVars, appVars, geoVars, cullVars, fuzzVars, laterVars>>

DeliverBroadcast ==
    /\ deliverBroadcast
    /\ UNCHANGED <<flightVars, headingVars, appVars, geoVars, cullVars, fuzzVars, laterVars>>

JoinRoom ==
    /\ \E roomId \in RoomSamples : joinRoom(roomId)
    /\ UNCHANGED <<flightVars, headingVars, appVars, geoVars, cullVars, fuzzVars, laterVars>>

LeaveRoom ==
    /\ leaveRoom
    /\ UNCHANGED <<flightVars, headingVars, appVars, geoVars, cullVars, fuzzVars, laterVars>>

NextPresence == BroadcastPresence \/ DeliverBroadcast \/ JoinRoom \/ LeaveRoom

SpecPresence == InitPresence /\ [][NextPresence]_vars

----------------------------------------------------------------------------
(* getRelativePosition and calculateDistance applied to drawn inputs *)

\* Device positions: Tokyo, Sydney and the Gulf of Guinea, on whole degrees.
GeoOriginSamples ==
    {GeoPosition(35 * DegScale, 139 * DegScale, Num(0)),
     GeoPosition(35 * DegScale, 139 * DegScale, Num(40 * Scale)),
     GeoPosition(-34 * DegScale, 151 * DegScale, Num(10 * Scale)),
     GeoPosition(0, 0, Num(0))}

\* Targets around a device position: whole degrees north and east of it, and
\* metres above it.
TargetsAround(origin) ==
    {GeoPosition(origin.latitude + dLat * DegScale, origin.longitude + dLon * DegScale,
                 Num(origin.altitude.val + dAlt * Scale)) :
        dLat \in {0, 1}, dLon \in {0, 1}, dAlt \in {0, 50}}

InitGeo ==
    /\ gOrigin \in GeoOriginSamples
    /\ gTarget \in TargetsAround(gOrigin)
    /\ gHeading \in HeadingSamples
    /\ gOut = NoResult
    /\ gDist = NoResult
    /\ FlightIdle
    /\ LaterIdle
    /\ HeadingIdle
    /\ AppIdle
    /\ CullIdle
    /\ FuzzIdle
    /\ SocialIdle

CallRelativePosition ==
    /\ gOut = NoResult
    /\ gOut' = getRelativePosition(gTarget, gOrigin, gHeading)
    /\ UNCHANGED <<gTarget, gOrigin, gHeading, gDist, flightVars, headingVars, appVars,
                   cullVars, fuzzVars, socialVars, laterVars>>

CallDistance ==
    /\ gDist = NoResult
    /\ gDist' = calculateDistance(gOrigin, gTarget)
    /\ UNCHANGED <<gTarget, gOrigin, gHeading, gOut, flightVars, headingVars, appVars,
                   cullVars, fuzzVars, socialVars, laterVars>>

NextGeo == CallRelativePosition \/ CallDistance

SpecGeo == InitGeo /\ [][NextGeo]_vars

----------------------------------------------------------------------------
(* SmartMapView over several page loads *)

\* localStorage may hold the flag from an earlier visit.
InitSmart ==
    /\ cesiumFailed \in {"null", "true"}
    /\ useFallback = "null"
    /\ smMounted = FALSE
    /\ smMounts = 0
    /\ smViews = <<>>
    /\ smFlagAtMount = FALSE
    /\ smRetried = FALSE
    /\ FlightIdle
    /\ HeadingIdle
    /\ AppIdle
    /\ GeoIdle
    /\ CullIdle
    /\ FuzzIdle
    /\ SocialIdle
    /\ FollowIdle
    /\ RoomIdle
    /\ FeedIdle

OtherThanSmart ==
    <<flightVars, headingVars, appVars, geoVars, cullVars, fuzzVars, socialVars, followVars,
      roomVars, feedVars>>

SmMount == smMount /\ UNCHANGED OtherThanSmart

SmMountEffect == (\E webglOk \in BOOLEAN : smMountEffect(webglOk)) /\ UNCHANGED OtherThanSmart

HandleCesiumError ==
    /\ \E message \in ErrorMessageSamples : handleCesiumError(message)
    /\ UNCHANGED OtherThanSmart

HandleRetry3D == handleRetry3D /\ UNCHANGED OtherThanSmart

SmUnmount == smUnmount /\ UNCHANGED OtherThanSmart

NextSmart == SmMount \/ SmMountEffect \/ HandleCesiumError \/ HandleRetry3D \/ SmUnmount

SpecSmart == InitSmart /\ [][NextSmart]_vars

----------------------------------------------------------------------------
(* The follow store under overlapping calls *)

InitFollow ==
    /\ FollowIdle
    /\ FlightIdle
    /\ HeadingIdle
    /\ AppIdle
    /\ GeoIdle
    /\ CullIdle
    /\ FuzzIdle
    /\ SocialIdle
    /\ SmartIdle
    /\ RoomIdle
    /\ FeedIdle

OtherThanFollow ==
    <<flightVars, headingVars, appVars, geoVars, cullVars, fuzzVars, socialVars, smartVars,
      roomVars, feedVars>>

FollowUser ==
    /\ \E targetUserId \in FollowTargets : followUser(targetUserId)
    /\ UNCHANGED OtherThanFollow

FollowInserted ==
    /\ \E c \in followCalls, ok \in BOOLEAN : followInserted(c, ok)
    /\ UNCHANGED OtherThanFollow

FollowProfileFetched ==
    /\ \E c \in followCalls, ok \in BOOLEAN : followProfileFetched(c, ok)
    /\ UNCHANGED OtherThanFollow

UnfollowUser ==
    /\ \E targetUserId \in FollowTargets : unfollowUser(targetUserId)
    /\ UNCHANGED OtherThanFollow

UnfollowDeleted ==
    /\ \E c \in followCalls, ok \in BOOLEAN : unfollowDeleted(c, ok)
    /\ UNCHANGED OtherThanFollow

NextFollow ==
    \/ FollowUser
    \/ FollowInserted
    \/ FollowProfileFetched
    \/ UnfollowUser
    \/ UnfollowDeleted

SpecFollow == InitFollow /\ [][NextFollow]_vars

----------------------------------------------------------------------------
(* The social store receiving broadcasts of several rooms *)

\* Presence payloads of other clients and of this user, each room with
\* positions of its own; color "" stands for a payload without one.
PresenceSamples ==
    { [userId |-> "user-b", roomId |-> NoRoom, color |-> "#f87171",
       position |-> GeoPosition(35681300, 139767100, Num(0))],
      [userId |-> "user-b", roomId |-> "room-1", color |-> "",
       position |-> GeoPosition(35681400, 139767200, Num(0))],
      [userId |-> "user-c", roomId |-> "room-2", color |-> "#e879f9",
       position |-> GeoPosition(35681500, 139767300, Num(0))],
      [userId |-> TheUser, roomId |-> "room-1", color |-> "#34d399",
       position |-> GeoPosition(35681600, 139767400, Num(0))] }

ReactionSamples ==
    { [objectId |-> "row-public", userId |-> "user-b", type |-> "like", roomId |-> r] :
        r \in {NoRoom, "room-2"} }

CommentSamples ==
    { [objectId |-> "row-public", userId |-> "user-b", text |-> "hi", timestamp |-> 0,
       id |-> "c-1", roomId |-> r] : r \in {"room-1", "room-2"} }

OtherThanRoom ==
    <<flightVars, headingVars, appVars, geoVars, cullVars, fuzzVars, smartVars, followVars,
      feedVars>>

PresenceReceived ==
    /\ \E payload \in PresenceSamples, currentUserId \in {TheUser, NoUser} :
          presenceReceived(payload, currentUserId)
    /\ UNCHANGED OtherThanRoom

ReactionReceived ==
    /\ \E payload \in ReactionSamples : reactionReceived(payload)
    /\ UNCHANGED OtherThanRoom

CommentReceived ==
    /\ \E payload \in CommentSamples : commentReceived(payload)
    /\ UNCHANGED OtherThanRoom

NextRoom ==
    \/ PresenceReceived
    \/ ReactionReceived
    \/ CommentReceived
    \/ JoinRoom
    \/ LeaveRoom

SpecRoom == InitPresence /\ [][NextRoom]_vars

----------------------------------------------------------------------------
(* The feed store: paging through unchanging rows, and overlapping calls *)

MaxFeedRows == 42     \* rows of the followed users in ar_objects

\* n rows, newest first, two of three owned by "user-b" and one by "user-c".
\* With tied, the rows PAGE_SIZE and PAGE_SIZE + 1 have the same created_at.
FeedTable(n, tied) ==
    [i \in 1..n |->
        [id |-> ToString(i),
         owner_id |-> IF i % 3 = 0 THEN "user-c" ELSE "user-b",
         created_at |-> IF tied /\ i > PAGE_SIZE THEN 1001 - i ELSE 1000 - i]]

FollowingSamples == {<<>>, <<"user-b">>, <<"user-b", "user-c">>}

OtherThanFeed ==
    <<flightVars, headingVars, appVars, geoVars, cullVars, fuzzVars, socialVars, smartVars,
      followVars, roomVars>>

FeedStoreCreated ==
    /\ items = <<>>
    /\ isLoading = FALSE
    /\ hasMore = TRUE
    /\ cursor = NoCursor
    /\ feedCalls = {}
    /\ feedNext = 0
    /\ feedFetched = NoFetch
    /\ FlightIdle
    /\ HeadingIdle
    /\ AppIdle
    /\ GeoIdle
    /\ CullIdle
    /\ FuzzIdle
    /\ SocialIdle
    /\ SmartIdle
    /\ FollowIdle
    /\ RoomIdle

\* The feed view: one fetchFeed, then loadMore whenever the last call is over,
\* always with the same followingIds; no request fails.
InitFeedPages ==
    /\ FeedStoreCreated
    /\ \E n \in 0..MaxFeedRows, tied \in BOOLEAN : feedRows = FeedTable(n, tied)
    /\ feedFollowing \in FollowingSamples

PagesFetchFeed ==
    /\ feedNext = 0
    /\ fetchFeed(feedFollowing)
    /\ UNCHANGED OtherThanFeed

PagesLoadMore ==
    /\ feedNext > 0
    /\ feedCalls = {}
    /\ hasMore
    /\ loadMore(feedFollowing)
    /\ UNCHANGED OtherThanFeed

PagesAnswered ==
    /\ \E c \in feedCalls : fetchFeedAnswered(c, TRUE) \/ loadMoreAnswered(c, TRUE)
    /\ UNCHANGED OtherThanFeed

NextFeedPages == PagesFetchFeed \/ PagesLoadMore \/ PagesAnswered

SpecFeedPages == InitFeedPages /\ [][NextFeedPages]_vars

\* Any calls of the feed store, overlapping, over 25 rows with distinct times.
InitFeed ==
    /\ FeedStoreCreated
    /\ feedRows = FeedTable(25, FALSE)
    /\ feedFollowing = <<>>

FetchFeed ==
    /\ \E followingIds \in FollowingSamples : fetchFeed(followingIds)
    /\ UNCHANGED OtherThanFeed

Refresh ==
    /\ \E followingIds \in FollowingSamples : refresh(followingIds)
    /\ UNCHANGED OtherThanFeed

LoadMore ==
    /\ \E followingIds \in FollowingSamples : loadMore(followingIds)
    /\ UNCHANGED OtherThanFeed

FetchFeedAnswered ==
    /\ \E c \in feedCalls, ok \in BOOLEAN : fetchFeedAnswered(c, ok)
    /\ UNCHANGED OtherThanFeed

LoadMoreAnswered ==
    /\ \E c \in feedCalls, ok \in BOOLEAN : loadMoreAnswered(c, ok)
    /\ UNCHANGED OtherThanFeed

NextFeed == FetchFeed \/ Refresh \/ LoadMore \/ FetchFeedAnswered \/ LoadMoreAnswered

SpecFeed == InitFeed /\ [][NextFeed]_vars

----------------------------------------------------------------------------
(* Claims *)

\* The compass bearing of an ENU offset lying on one of the eight compass
\* directions, -1 for any other offset.
BearingOf(enu) ==
    CASE enu.east = 0 /\ enu.north > 0 -> 0
      [] enu.east > 0 /\ enu.east = enu.north -> 45
      [] enu.east > 0 /\ enu.north = 0 -> 90
      [] enu.east > 0 /\ enu.east = -enu.north -> 135
      [] enu.east = 0 /\ enu.north < 0 -> 180
      [] enu.east < 0 /\ enu.east = enu.north -> 225
      [] enu.east < 0 /\ enu.north = 0 -> 270
      [] enu.east < 0 /\ -enu.east = enu.north -> 315
      [] OTHER -> -1

\* C1: a target whose compass bearing from the device equals the heading lands
\* straight ahead after the heading rotation: x = 0 (within 1% of its distance),
\* z < 0, y unchanged.
C1_BearingLandsAhead ==
    (hOut # NoResult /\ BearingOf(hEnu) = hHeading) =>
        /\ Abs(hOut.x) * 100 <= Abs(hEnu.east) + Abs(hEnu.north)
        /\ hOut.z < 0
        /\ hOut.y = hEnu.up

\* C2: for pattern=random the offset just before a segment boundary (1 ms before
\* 5000*k) is the offset at the boundary, within 1% of the radius, for every k.
C2_ContinuousAtBoundaries ==
    (fOffset # NoResult /\ fConfig.pattern = "random" /\ (fTime + 1) % 5000 = 0) =>
        LET atBoundary == calculateFlightOffset(fConfig, fTime + 1)
        IN  /\ Abs(fOffset.latOffset - atBoundary.latOffset) * 100 <= fConfig.radius
            /\ Abs(fOffset.lonOffset - atBoundary.lonOffset) * 100 <= fConfig.radius

\* C3 (as claimed): for pattern=circle with speed=1 the whole offset, altitude
\* included, is the same 30000 ms later.
C3_WholeOffsetPeriod30 ==
    (fOffset # NoResult /\ fConfig.pattern = "circle" /\ fConfig.speed = SpeedScale) =>
        fOffset = calculateFlightOffset(fConfig, fTime + 30000)

\* C3 (amended): for pattern=circle with speed=1 the lat and lon offsets are the
\* same 30000 ms later, and the whole offset, altitude included, 60000 ms later.
C3_HorizontalPeriod30 ==
    (fOffset # NoResult /\ fConfig.pattern = "circle" /\ fConfig.speed = SpeedScale) =>
        LET later30 == calculateFlightOffset(fConfig, fTime + 30000)
            later60 == calculateFlightOffset(fConfig, fTime + 60000)
        IN  /\ fOffset.latOffset = later30.latOffset
            /\ fOffset.lonOffset = later30.lonOffset
            /\ fOffset = later60

\* C3 witness: a moving circle whose altitude 30000 ms later differs.
C3_Witness ==
    /\ fOffset # NoResult
    /\ fConfig.pattern = "circle" /\ fConfig.speed = SpeedScale
    /\ fConfig.radius > 0 /\ fOffset.latOffset # 0
    /\ fOffset.altOffset # calculateFlightOffset(fConfig, fTime + 30000).altOffset

\* C4: for pattern=random with radius >= 0 the lat and lon offsets stay within
\* [-radius, radius] at every time, negative times included.
C4_RandomWithinRadius ==
    (fOffset # NoResult /\ fConfig.pattern = "random" /\ fConfig.radius >= 0) =>
        /\ Abs(fOffset.latOffset) <= fConfig.radius
        /\ Abs(fOffset.lonOffset) <= fConfig.radius

\* C5: with minAltitude <= maxAltitude the altitude offset lies in
\* [minAltitude, maxAltitude], for every pattern and every time.
C5_AltitudeWithinRange ==
    (fOffset # NoResult /\ fConfig.minAltitude <= fConfig.maxAltitude) =>
        /\ fConfig.minAltitude <= fOffset.altOffset
        /\ fOffset.altOffset <= fConfig.maxAltitude

\* C5 witness: an altitude strictly inside a proper range, at a negative time.
C5_Witness ==
    /\ fOffset # NoResult
    /\ fConfig.pattern = "random" /\ fConfig.speed > 0 /\ fTime < 0
    /\ fConfig.minAltitude < fOffset.altOffset
    /\ fOffset.altOffset < fConfig.maxAltitude

\* C6: with speed = 0 the offset is the same at every time, for every pattern.
C6_StaticAtSpeedZero ==
    (fOffset # NoResult /\ fConfig.speed = 0) =>
        \A t2 \in TimeSamples : fOffset = calculateFlightOffset(fConfig, t2)

ValidFlightConfig(config) ==
    /\ config.minAltitude <= config.maxAltitude
    /\ config.radius >= 0
    /\ config.speed > 0

\* C9: every FlightConfig held by a flying entity of the object store satisfies
\* minAltitude <= maxAltitude, radius >= 0 and speed > 0.
C9_StoredConfigsValid ==
    \A list \in {objects, publicObjects} :
        \A i \in 1..Len(list) :
            (list[i].objectType = "flying" /\ list[i].flightConfig # NoConfig)
                => ValidFlightConfig(list[i].flightConfig)

\* The objects with a flight config among the store's own and shared objects.
AnimatedObjects ==
    SelectSeq(objects \o getDeveloperObjectsAsPlaced,
              LAMBDA o : o.objectType = "flying" /\ o.flightConfig # NoConfig)

\* C10: a step in which Map3DView's updatePositions or an AR frame writes its
\* positions leaves the object store (and the backend) unchanged, and every
\* position it writes is the one computed from the base position and flightConfig
\* the store holds for that object (Map3DView: as captured by the position effect)
\* and the current time.
C10_TicksNeverWriteBack ==
    [][ /\ (flyingPositions' # flyingPositions \/ mapTickAt' # mapTickAt) =>
            /\ UNCHANGED <<objects, publicObjects, rows, pending>>
            /\ mapTickAt' = now
            /\ flyingPositions' = NewPositions(flyingObjects', now)
            /\ \A id \in DOMAIN flyingPositions' :
                 \A i \in 1..Len(AnimatedObjects) :
                    AnimatedObjects[i].id = id =>
                        flyingPositions'[id] =
                            calculateCurrentPosition(AnimatedObjects[i].position,
                                                     AnimatedObjects[i].flightConfig, now)
        /\ (mode' = "ar" /\ (arPositions' # arPositions \/ arFrameAt' # arFrameAt)) =>
            /\ UNCHANGED <<objects, publicObjects, rows, pending>>
            /\ arFrameAt' = now
            /\ \A id \in DOMAIN arPositions' :
                 \E i \in 1..Len(AnimatedObjects) :
                    /\ AnimatedObjects[i].id = id
                    /\ arPositions'[id] =
                         calculateWorldPosition(
                            calculateCurrentPosition(AnimatedObjects[i].position,
                                                     AnimatedObjects[i].flightConfig, now),
                            devicePositionAR)
      ]_vars

\* C10 witness: after a clock advance both views have ticked, and a flying object
\* the user placed is shown away from its stored base position.
C10_Witness ==
    /\ mapTickAt > 0
    /\ arFrameAt > 0
    /\ \E i \in 1..Len(objects) :
          /\ objects[i].objectType = "flying"
          /\ objects[i].id \in DOMAIN flyingPositions
          /\ objects[i].id \in DOMAIN arPositions
          /\ flyingPositions[objects[i].id] # objects[i].position

\* Every entity of a rendered scene lies within VISIBLE_RADIUS of the position the
\* scene was rendered for.
SceneWithinRadius(scene) ==
    scene.position # NoPosition =>
        \A i \in 1..Len(scene.allObjects) :
            LET d == calculateDistance(scene.position, scene.allObjects[i].position)
            IN  ~ d.nan /\ d.val <= 2000 * EcefScale

HorizontalDisplacement(from, to) ==
    LET dLat == ((to.latitude - from.latitude) * FuzzMetresPerDegreeLat)
                    \div (DegScale \div Scale)
        dLon == ((to.longitude - from.longitude) * FuzzMetresPerDegreeLon)
                    \div (DegScale \div Scale)
    IN  SqrtOfSquares(dLat, dLon, 0)

\* Rounding allowance of the fixed-point trigonometry: 1 % and a quarter metre.
FuzzTolerance(distance) == distance \div 100 + 250

\* C12: every presence message broadcastPresence sends carries an output of
\* fuzzPosition with the default offsets for the position it was given; its
\* latitude / longitude pair differs from the device's pair and lies at least
\* 10 m away (up to the rounding allowance).
C12_PresenceIsFuzzed ==
    [][Len(channel') > Len(channel) =>
         LET sent == channel'[Len(channel')].payload.position
         IN  /\ \E random1 \in RandomSamples, random2 \in RandomSamples :
                   sent = fuzzPosition(bPosition', DefaultMinOffset, DefaultMaxOffset,
                                       random1, random2)
             /\ <<sent.latitude, sent.longitude>>
                    # <<bPosition'.latitude, bPosition'.longitude>>
             /\ HorizontalDisplacement(bPosition', sent)
                    >= DefaultMinOffset - FuzzTolerance(DefaultMinOffset)]_vars

C12_Witness ==
    /\ bPosition # NoPosition
    /\ channel # <<>>
    /\ channel[1].payload.userId = TheUser
    /\ channel[1].payload.position.altitude = bPosition.altitude

\* C13 as stated: for min <= max the displacement d satisfies min <= d < max and
\* the altitude is the input's.
C13_DisplacementBelowMax ==
    (zOut # NoResult /\ zMin <= zMax) =>
        /\ zMin <= zDistance.val
        /\ zDistance.val < zMax
        /\ Abs(HorizontalDisplacement(zPosition, zOut) - zDistance.val)
               <= FuzzTolerance(zDistance.val)
        /\ zOut.altitude = zPosition.altitude

\* C13, amended: for min <= max the displacement d satisfies min <= d <= max,
\* with d < max whenever min < max (for min = max it is d = min = max); the
\* measured displacement agrees with d up to the rounding allowance, and the
\* altitude is the input's, for every random draw.
C13_DisplacementWithinOffsets ==
    (zOut # NoResult /\ zMin <= zMax) =>
        /\ zMin <= zDistance.val
        /\ zDistance.val <= zMax
        /\ zMin < zMax => zDistance.val < zMax
        /\ Abs(HorizontalDisplacement(zPosition, zOut) - zDistance.val)
               <= FuzzTolerance(zDistance.val)
        /\ zOut.altitude = zPosition.altitude

C13_Witness ==
    /\ zOut # NoResult
    /\ zMin < zMax
    /\ zMin < zDistance.val
    /\ zOut.latitude # zPosition.latitude
    /\ zOut.longitude # zPosition.longitude

\* C14: getRelativePosition(p, p, h) is (0, 0, 0) for every position p with a
\* finite altitude and every heading h.
C14_SamePointIsOrigin ==
    (gOut # NoResult /\ gTarget = gOrigin) => gOut = [x |-> 0, y |-> 0, z |-> 0]

C14_Witness ==
    /\ gOut # NoResult
    /\ gTarget = gOrigin
    /\ gOrigin.altitude.val > 0
    /\ gHeading # 0

\* The length of a render-frame vector.
Norm(v) == SqrtOfSquares(v.x, v.y, v.z)

\* Rounding allowance of the fixed-point rotation: 1 % and two decimetres.
GeoTolerance(length) == length \div 100 + 2

\* C15: the heading changes neither the length of getRelativePosition's result
\* (up to the rounding allowance) nor its y component: both are those of the
\* result at heading 0.
C15_HeadingKeepsNormAndY ==
    gOut # NoResult =>
        LET atZero == getRelativePosition(gTarget, gOrigin, 0)
        IN  /\ Abs(Norm(gOut) - Norm(atZero)) <= GeoTolerance(Norm(atZero))
            /\ gOut.y = atZero.y

C15_Witness ==
    /\ gOut # NoResult
    /\ gHeading = 45
    /\ gTarget.latitude # gOrigin.latitude
    /\ gTarget.longitude # gOrigin.longitude
    /\ gOut # getRelativePosition(gTarget, gOrigin, 0)

\* C16: a target at the device's latitude and longitude and 50 m above it comes
\* out as (0, 50 m, 0) for every device position and heading, up to the rounding
\* allowance (2 % and two decimetres on each component).
C16_StraightUp ==
    (/\ gOut # NoResult
     /\ gTarget.latitude = gOrigin.latitude
     /\ gTarget.longitude = gOrigin.longitude
     /\ gTarget.altitude.val = gOrigin.altitude.val + 50 * Scale) =>
        /\ Abs(gOut.x) <= 2
        /\ Abs(gOut.y - 50 * EcefScale) <= 2 * GeoTolerance(50 * EcefScale)
        /\ Abs(gOut.z) <= 2

C16_Witness ==
    /\ gOut # NoResult
    /\ gTarget.latitude = gOrigin.latitude
    /\ gTarget.longitude = gOrigin.longitude
    /\ gTarget.altitude.val = gOrigin.altitude.val + 50 * Scale
    /\ gOrigin.latitude # 0
    /\ gHeading = 135
    /\ gOut.y > 0

\* C17: between ecefToENU and applyHeading the only step is x = east, y = up,
\* z = -north.
C17_RenderFrameFromENU ==
    gOut # NoResult =>
        LET enu == ecefToENU(geodeticToECEF(gTarget), geodeticToECEF(gOrigin), gOrigin)
        IN  gOut = applyHeading([x |-> enu.east, y |-> enu.up, z |-> -enu.north],
                                gHeading)

C17_Witness ==
    /\ gOut # NoResult
    /\ gHeading = 0
    /\ gTarget.latitude > gOrigin.latitude
    /\ gTarget.longitude = gOrigin.longitude
    /\ gOut.z < 0

\* C18: calculateDistance gives the same value with its arguments exchanged, and
\* zero for a point and itself (positions with finite altitudes).
C18_DistanceSymmetricAndZero ==
    gDist # NoResult =>
        /\ gDist = calculateDistance(gTarget, gOrigin)
        /\ calculateDistance(gOrigin, gOrigin) = Num(0)
        /\ calculateDistance(gTarget, gTarget) = Num(0)
        /\ gTarget = gOrigin => gDist = Num(0)

C18_Witness ==
    /\ gDist # NoResult
    /\ gTarget.altitude.val > gOrigin.altitude.val
    /\ gOrigin.altitude.val > 0
    /\ gTarget.latitude # gOrigin.latitude
    /\ gDist.val > 0

\* C19: for an authenticated user and a backend without errors, once initialize
\* has finished and every background request has completed, the rows of
\* ar_objects owned by the user have exactly the ids of the local objects list.
C19_RowsMatchObjectsWhenQuiet ==
    (/\ userId = TheUser
     /\ \A c \in InitCalls : initPc[c] = "done"
     /\ pending = {}) =>
        {r.id : r \in {q \in rows : q.owner_id = TheUser}} = Ids(objects)

\* C20: initialize always finishes: isInitialized becomes true and, once true,
\* stays true, whether the session lookup or the sign-in succeeds, returns an
\* error, throws, or never answers.
C20_InitializeAlwaysFinishes ==
    /\ <>isInitialized
    /\ [](isInitialized => []isInitialized)

C20_Witness ==
    /\ isInitialized
    /\ userId = NoUser
    /\ \A c \in InitCalls : initPc[c] = "done"

C22_RollbackTouchesOnlyTarget ==
    [][\A c \in followCalls :
          (c.kind = "follow" /\ c.pc = "insert" /\ followCalls' = followCalls \ {c}) =>
              /\ c.target \notin Range(following')
              /\ \A id \in FollowTargets \ {c.target} :
                    (id \in Range(following')) <=> (id \in Range(following))]_vars

\* C23: once every call has completed and no request has returned an error,
\* followingProfiles holds exactly one profile for each id of following and none
\* for any other id.
C23_ProfilesMatchFollowing ==
    (followCalls = {} /\ ~ followFailed) =>
        /\ {followingProfiles[i].id : i \in 1..Len(followingProfiles)} = Range(following)
        /\ Len(followingProfiles) = Len(following)

\* Whether a presence broadcast for the current room carried this user and position.
FromCurrentRoom(user, position) ==
    \E i \in 1..Len(received) :
        /\ received[i].event = "presence"
        /\ received[i].payload.roomId = currentRoomId
        /\ received[i].payload.position = position
        /\ user # "" => received[i].payload.userId = user

\* C24: room isolation. Every entry of onlineUsers and of otherFootprints came
\* from a presence message whose roomId is the current currentRoomId; a step that
\* changes currentRoomId empties both collections; and a presence, reaction or
\* comment message of another room changes nothing the store keeps.
C24_RoomIsolation ==
    /\ [](/\ \A u \in onlineUsers : FromCurrentRoom(u.userId, u.position)
          /\ \A k \in 1..Len(otherFootprints) : FromCurrentRoom("", otherFootprints[k]))
    /\ [][currentRoomId' # currentRoomId =>
             (onlineUsers' = {} /\ otherFootprints' = <<>>)]_vars
    /\ [][(Len(received') > Len(received)
             /\ received'[Len(received')].payload.roomId # currentRoomId) =>
             UNCHANGED <<onlineUsers, otherFootprints, objectReactions, objectComments,
                         currentRoomId>>]_vars

C24_Witness ==
    /\ currentRoomId = "room-1"
    /\ onlineUsers # {}
    /\ otherFootprints # <<>>
    /\ \E i \in 1..Len(received) :
          received[i].event = "presence" /\ received[i].payload.roomId = NoRoom
    /\ \E i \in 1..Len(received) :
          received[i].event = "presence" /\ received[i].payload.roomId = "room-1"

\* C25: under overlapping calls of initialize, at most one of them is inside
\* getOrCreateUserId(), so authentication runs at most once.
C25_AuthenticatesOnce ==
    Cardinality({c \in DOMAIN initPc : initPc[c] = "auth"}) <= 1

\* The ids of the items, in order.
ItemIds(list) == [i \in 1..Len(list) |-> list[i].id]

\* C26: with unchanging rows, fetchFeed followed by loadMore until hasMore is
\* false leaves in items every row of the followed users exactly once, newest
\* first, rows sharing a created_at with a page's last row included.
C26_PaginationComplete ==
    (feedNext > 0 /\ feedCalls = {} /\ ~ hasMore) =>
        ItemIds(items) =
            ItemIds(SelectSeq(feedRows, LAMBDA row : row.owner_id \in Range(feedFollowing)))

\* C27: when a fetchFeed or refresh has completed successfully and no feed request
\* is in flight (and no loadMore was started since), items is the first page for
\* its followingIds and cursor is the created_at of that page's last row.
C27_RefreshInstallsFirstPage ==
    (feedCalls = {} /\ feedFetched # NoFetch) =>
        LET page == FeedQuery(feedFetched.followingIds, NoCursor)
        IN  /\ items = FeedItems(page)
            /\ cursor = IF Len(page) = 0 THEN NoCursor ELSE page[Len(page)].created_at

============================================================================
